---- MODULE Spec2Model ----
(***************************************************************************)
(* Beam-search decoding for Token-and-Duration Transducer models           *)
(* (nemo/collections/asr/parts/submodules/tdt_beam_decoding.py,            *)
(* class BeamTDTInfer).                                                    *)
(*                                                                         *)
(* Scores are natural-log probabilities in the code.  The model keeps a    *)
(* score s as the exact probability mass exp(s) = m / 2^e, with m a        *)
(* natural number of arbitrary size, so that adding log-probabilities      *)
(* (a product of masses), torch.logaddexp (a sum of masses), comparisons   *)
(* and the length-normalised ranking key are computed exactly.             *)
(***************************************************************************)
EXTENDS Integers, Sequences, FiniteSets, TLC

VARIABLES
    self,        \* the BeamTDTInfer object: its configuration fields
    joint_out,   \* the joint network's output per encoder frame (the scorer)
    topk_ties,   \* how this build of torch.topk orders equal values
    encoded_lengths, \* number of encoder frames of the sample
    pc,          \* position in the search
    time_idx,    \* current encoder frame
    hyps,        \* hypotheses of the current frame (working set)
    kept_hyps,   \* hypotheses of future frames (pending / kept set)
    n,           \* mAES step within the frame
    list_b,      \* mAES: blank emissions of the frame
    list_nb,     \* mAES: non-zero duration non-blank emissions of the frame
    list_exp,    \* mAES: zero duration non-blank emissions of the step
    expanded,    \* the (parent, child) pairs created by the last expansion
    frame_end,   \* how the last frame ended
    nbest,       \* the returned ranked list
    dedup_in,    \* argument of the last remove_duplicate_hypotheses call
    dedup_out,   \* its result
    sort_in,     \* argument of the last sort_nbest call
    partial_hypotheses, \* the search's partial_hypotheses argument
    scorer_calls, \* calls of the decoder and of the joint made by the search
    raised,      \* the exception that ended the operation, or "None"
    args,        \* arguments of __init__ or of __call__
    batch_idx,   \* __call__: index of the sample being decoded
    batch_hypotheses, \* __call__: its list `hypotheses`, the results packed so far
    decoded,     \* __call__: what the search returned for each sample so far
    returned,    \* __call__: the returned tuple, <<>> while nothing is returned
    cache,       \* the dict `cache` of the search: the token sequences scored
    training,    \* the training flags of self.decoder and of self.joint
    training_state \* __call__: decoder_training_state and joint_training_state

\* the state of one search
search_vars == <<joint_out, encoded_lengths, time_idx, hyps, kept_hyps, n, list_b,
                 list_nb, list_exp, expanded, frame_end, nbest, dedup_in,
                 dedup_out, sort_in, partial_hypotheses, scorer_calls, cache>>

\* the state of __call__ around the searches
call_vars == <<args, batch_idx, batch_hypotheses, decoded, returned, training,
               training_state>>

vars == <<self, topk_ties, pc, raised, search_vars, call_vars>>

(***************************************************************************)
(* Bounds of the model.                                                    *)
(***************************************************************************)
MaxFrames == 2      \* encoder frames per sample: 0..MaxFrames
MaxBeam == 2        \* beam_size: 1..MaxBeam
MaxList == 4        \* length of the lists given to the pure functions
MaxBatch == 2       \* samples per __call__: 0..MaxBatch

(***************************************************************************)
(* Arbitrary-size naturals: little-endian digit sequences in base 2^15,    *)
(* without leading zero digits; zero is the empty sequence.                *)
(***************************************************************************)
Base == 2^15

RECURSIVE BigAddC(_, _, _)
BigAddC(a, b, c) ==
    IF a = <<>> /\ b = <<>>
    THEN (IF c = 0 THEN <<>> ELSE <<c>>)
    ELSE LET x == IF a = <<>> THEN 0 ELSE Head(a)
             y == IF b = <<>> THEN 0 ELSE Head(b)
             s == x + y + c
         IN <<s % Base>> \o BigAddC(IF a = <<>> THEN <<>> ELSE Tail(a),
                                    IF b = <<>> THEN <<>> ELSE Tail(b),
                                    s \div Base)

BigAdd(a, b) == BigAddC(a, b, 0)

RECURSIVE BigMulSmallC(_, _, _)
BigMulSmallC(a, k, c) ==
    IF a = <<>>
    THEN (IF c = 0 THEN <<>> ELSE <<c % Base>> \o BigMulSmallC(<<>>, k, c \div Base))
    ELSE LET s == Head(a) * k + c
         IN <<s % Base>> \o BigMulSmallC(Tail(a), k, s \div Base)

\* a * k for 0 <= k < Base
BigMulSmall(a, k) == IF k = 0 THEN <<>> ELSE BigMulSmallC(a, k, 0)

\* a * 2^bits
BigShl(a, bits) ==
    IF a = <<>> THEN <<>>
    ELSE [i \in 1..(bits \div 15) |-> 0] \o BigMulSmall(a, 2^(bits % 15))

RECURSIVE BigMul(_, _)
BigMul(a, b) ==
    IF b = <<>> \/ a = <<>> THEN <<>>
    ELSE LET rest == BigMul(a, Tail(b))
         IN BigAdd(BigMulSmall(a, Head(b)),
                   IF rest = <<>> THEN <<>> ELSE <<0>> \o rest)

RECURSIVE BigPow(_, _)
BigPow(a, k) == IF k = 0 THEN <<1>> ELSE BigMul(a, BigPow(a, k - 1))

RECURSIVE BigCmpAt(_, _, _)
BigCmpAt(a, b, i) ==
    IF i = 0 THEN 0
    ELSE IF a[i] > b[i] THEN 1
    ELSE IF a[i] < b[i] THEN -1
    ELSE BigCmpAt(a, b, i - 1)

\* -1, 0, 1 as a < b, a = b, a > b
BigCmp(a, b) ==
    IF Len(a) > Len(b) THEN 1
    ELSE IF Len(a) < Len(b) THEN -1
    ELSE BigCmpAt(a, b, Len(a))

(***************************************************************************)
(* Scores.  [m, e] stands for the log-probability ln(m / 2^e).             *)
(***************************************************************************)
\* score = 0.0
ScoreZero == [m |-> <<1>>, e |-> 0]

\* a log-probability ln(w / 2^e) of a log_softmax output, w < Base
LogP(w, e) == [w |-> w, e |-> e]

\* lp1 + lp2 for two log-probabilities
LogPAdd(lp1, lp2) == [w |-> lp1.w * lp2.w, e |-> lp1.e + lp2.e]

\* -1, 0, 1 as lp1 < lp2, lp1 = lp2, lp1 > lp2
LogPCmp(lp1, lp2) ==
    LET x == lp1.w * 2^(lp2.e)
        y == lp2.w * 2^(lp1.e)
    IN IF x > y THEN 1 ELSE IF x < y THEN -1 ELSE 0

\* score + logp
ScoreAdd(s, lp) == [m |-> BigMulSmall(s.m, lp.w), e |-> s.e + lp.e]

\* -1, 0, 1 as a < b, a = b, a > b
ScoreCmp(a, b) ==
    IF a.e >= b.e
    THEN BigCmp(a.m, BigShl(b.m, a.e - b.e))
    ELSE BigCmp(BigShl(a.m, b.e - a.e), b.m)

\* max(a, b) in place of the log-sum-exp: the merge that discards mass
ScoreSum(a, b) == [m |-> BigMul(a.m, b.m), e |-> a.e + b.e]

ScoreMax(a, b) == IF ScoreCmp(a, b) >= 0 THEN a ELSE b

\* torch.logaddexp(a, b) = ln(exp(a) + exp(b))
logaddexp(a, b) ==
    IF a.e >= b.e
    THEN [m |-> BigAdd(a.m, BigShl(b.m, a.e - b.e)), e |-> a.e]
    ELSE [m |-> BigAdd(BigShl(a.m, b.e - a.e), b.m), e |-> b.e]

\* -1, 0, 1 as a/la < b/lb, a/la = b/lb, a/la > b/lb (la, lb > 0):
\* a/la >= b/lb  iff  exp(a)^lb >= exp(b)^la
NormCmp(a, la, b, lb) ==
    BigCmp(BigShl(BigPow(a.m, lb), b.e * la), BigShl(BigPow(b.m, la), a.e * lb))

(***************************************************************************)
(* Hypothesis: the fields of rnnt_utils.Hypothesis the search reads.       *)
(***************************************************************************)
Hypothesis(score, y_sequence, timestep, last_frame, ngram_lm_state) ==
    [score |-> score, y_sequence |-> y_sequence, timestep |-> timestep,
     last_frame |-> last_frame, ngram_lm_state |-> ngram_lm_state]

\* An insertion that puts h before the elements of equal score: a sort that is
\* not stable.
RECURSIVE InsertByScoreStrict(_, _, _)
InsertByScoreStrict(sorted, h, reverse) ==
    IF sorted = <<>> THEN <<h>>
    ELSE IF ScoreCmp(Head(sorted).score, h.score) * (IF reverse THEN 1 ELSE -1) > 0
         THEN <<Head(sorted)>> \o InsertByScoreStrict(Tail(sorted), h, reverse)
         ELSE <<h>> \o sorted

\* sorted(hs, key=lambda x: x.score, reverse=reverse): Python's sort is stable,
\* also with reverse=True (equal keys keep their input order).
RECURSIVE InsertByScore(_, _, _)
InsertByScore(sorted, h, reverse) ==
    IF sorted = <<>> THEN <<h>>
    ELSE IF ScoreCmp(Head(sorted).score, h.score) * (IF reverse THEN 1 ELSE -1) >= 0
         THEN <<Head(sorted)>> \o InsertByScore(Tail(sorted), h, reverse)
         ELSE <<h>> \o sorted

RECURSIVE SortedByScore(_, _)
SortedByScore(hs, reverse) ==
    IF hs = <<>> THEN <<>>
    ELSE InsertByScore(SortedByScore(SubSeq(hs, 1, Len(hs) - 1), reverse),
                       hs[Len(hs)], reverse)

\* An insertion by the raw score, whatever the lengths.
RECURSIVE InsertByRawScore(_, _)
InsertByRawScore(sorted, h) ==
    IF sorted = <<>> THEN <<h>>
    ELSE IF ScoreCmp(Head(sorted).score, h.score) >= 0
         THEN <<Head(sorted)>> \o InsertByRawScore(Tail(sorted), h)
         ELSE <<h>> \o sorted

\* sorted(hs, key=lambda x: x.score / len(x.y_sequence), reverse=True)
RECURSIVE InsertByNormScore(_, _)
InsertByNormScore(sorted, h) ==
    IF sorted = <<>> THEN <<h>>
    ELSE IF NormCmp(Head(sorted).score, Len(Head(sorted).y_sequence),
                    h.score, Len(h.y_sequence)) >= 0
         THEN <<Head(sorted)>> \o InsertByNormScore(Tail(sorted), h)
         ELSE <<h>> \o sorted

RECURSIVE SortedByNormScore(_)
SortedByNormScore(hs) ==
    IF hs = <<>> THEN <<>>
    ELSE InsertByNormScore(SortedByNormScore(SubSeq(hs, 1, Len(hs) - 1)), hs[Len(hs)])

\* BeamTDTInfer.sort_nbest
sort_nbest(score_norm, hs) ==
    IF score_norm THEN SortedByNormScore(hs) ELSE SortedByScore(hs, TRUE)

\* A merge that looks at the first kept hypothesis only.
MergeIntoHeadOnly(kept, hyp) ==
    IF kept = <<>> THEN <<hyp>>
    ELSE IF Head(kept).y_sequence = hyp.y_sequence /\ Head(kept).last_frame = hyp.last_frame
         THEN <<[Head(kept) EXCEPT !.score = logaddexp(Head(kept).score, hyp.score)]>>
              \o Tail(kept)
         ELSE Append(kept, hyp)

MergeIntoLastOnly(kept, hyp) ==
    IF kept = <<>> THEN <<hyp>>
    ELSE IF kept[Len(kept)].y_sequence = hyp.y_sequence /\ kept[Len(kept)].last_frame = hyp.last_frame
         THEN [kept EXCEPT ![Len(kept)].score = logaddexp(kept[Len(kept)].score, hyp.score)]
         ELSE Append(kept, hyp)

\* The inner loop of remove_duplicate_hypotheses: merge hyp into the first
\* kept hypothesis with the same y_sequence and last_frame, else append it.
RECURSIVE MergeInto(_, _)
MergeInto(kept, hyp) ==
    IF kept = <<>> THEN <<hyp>>
    ELSE IF Head(kept).y_sequence = hyp.y_sequence /\ Head(kept).last_frame = hyp.last_frame
         THEN <<[Head(kept) EXCEPT !.score = logaddexp(Head(kept).score, hyp.score)]>>
              \o Tail(kept)
         ELSE <<Head(kept)>> \o MergeInto(Tail(kept), hyp)

RECURSIVE MergeAll(_, _)
MergeAll(kept, sorted_hyps) ==
    IF sorted_hyps = <<>> THEN kept
    ELSE MergeAll(MergeInto(kept, Head(sorted_hyps)), Tail(sorted_hyps))

\* The sort of remove_duplicate_hypotheses without its merge.
SortedOnly(hypotheses) == SortedByScore(hypotheses, TRUE)

\* BeamTDTInfer.remove_duplicate_hypotheses
remove_duplicate_hypotheses(hypotheses) == MergeAll(<<>>, SortedByScore(hypotheses, TRUE))

(***************************************************************************)
(* The scorer.  The joint network returns, for an encoder frame and a      *)
(* decoder output, a vector of vocab_size + 1 token logits (blank last)    *)
(* followed by len(durations) duration logits.  A logit x is kept as the   *)
(* natural number exp(x); the vectors below have token parts and duration  *)
(* parts that each sum to a power of two.  The logits depend on the frame  *)
(* only: the decoder output of the hypothesis does not change them, and    *)
(* softmax_temperature is 1.                                               *)
(***************************************************************************)
JointLogits ==
    << <<16, 1, 15,  1, 13, 2>>,    \* token 0 and duration bin 1 lead, blank close
       << 2, 1,  5,  5,  2, 1>>,    \* blank and duration bin 0 lead
       << 5, 1,  2,  1,  5, 2>>,    \* token 0 and duration bin 1 lead clearly
       << 3, 3,  2,  3,  3, 2>>,    \* tokens 0 and 1 tie, duration bins 0 and 1 tie
       << 4, 7,  5,  7,  5, 4>>,    \* token 1 and duration bin 0 lead, no ties
       \* for a vocabulary of 3 tokens
       <<12, 3, 1, 16,  8, 6, 2>>,  \* best pairs: token 0 with bins 0 and 1
       <<10, 9, 1, 12,  1, 13, 2>>, \* best pairs: tokens 0 and 1 with bin 1
       << 3, 4, 5,  4,  3, 4, 1>> >> \* tokens and bins out of order, best bin 1

RECURSIVE SumSeq(_)
SumSeq(ws) == IF ws = <<>> THEN 0 ELSE Head(ws) + SumSeq(Tail(ws))

RECURSIVE Log2(_)
Log2(x) == IF x <= 1 THEN 0 ELSE 1 + Log2(x \div 2)

\* torch.log_softmax over a vector of logits: exp(x_i) / sum_j exp(x_j)
log_softmax(ws) == [i \in 1..Len(ws) |-> LogP(ws[i], Log2(SumSeq(ws)))]

\* the vectors of the length the joint network of this decoder gives:
\* vocab_size + 1 + len(durations)
ScorerOutputs ==
    { i \in 1..Len(JointLogits) :
        Len(JointLogits[i]) = self.vocab_size + 1 + Len(self.durations) }

\* self.joint.joint(encoder_output, decoder_output): the logits for frame t
joint(t) == JointLogits[joint_out[t]]

\* logits[0, 0, 0, : -len(self.durations)]
token_logits(logits) == SubSeq(logits, 1, Len(logits) - Len(self.durations))

\* logits[0, 0, 0, -len(self.durations) :]
duration_logits(logits) ==
    SubSeq(logits, Len(logits) - Len(self.durations) + 1, Len(logits))

\* torch.topk(vals, k): the positions (1-based) of the k largest values, largest
\* first; equal values in the order this build of torch gives them.
RECURSIVE TopKFrom(_, _, _)
TopKFrom(vals, remaining, k) ==
    IF k = 0 \/ remaining = {} THEN <<>>
    ELSE LET best == CHOOSE i \in remaining : \A j \in remaining \ {i} :
                        \/ LogPCmp(vals[i], vals[j]) > 0
                        \/ /\ LogPCmp(vals[i], vals[j]) = 0
                           /\ IF topk_ties = "low" THEN i < j ELSE i > j
         IN <<best>> \o TopKFrom(vals, remaining \ {best}, k - 1)

topk(vals, k) == TopKFrom(vals, 1..Len(vals), k)

Min(a, b) == IF a <= b THEN a ELSE b

\* self.zero_duration_idx (1-based; 0 stands for None)
zero_duration_idx ==
    IF \E i \in 1..Len(self.durations) : self.durations[i] = 0
    THEN CHOOSE i \in 1..Len(self.durations) :
            /\ self.durations[i] = 0
            /\ \A j \in 1..(i - 1) : self.durations[j] # 0
    ELSE 0

\* self.min_non_zero_duration_idx: np.argmin over the durations with zeros masked
min_non_zero_duration_idx ==
    CHOOSE i \in 1..Len(self.durations) :
        /\ self.durations[i] # 0
        /\ \A j \in 1..Len(self.durations) :
              self.durations[j] # 0 =>
                  \/ self.durations[i] < self.durations[j]
                  \/ (self.durations[i] = self.durations[j] /\ i <= j)

\* max(hs, key=lambda x: x.score): the position of the first largest score
FirstMax(hs) ==
    CHOOSE i \in 1..Len(hs) :
        /\ \A j \in 1..Len(hs) : ScoreCmp(hs[i].score, hs[j].score) >= 0
        /\ \A j \in 1..(i - 1) : ScoreCmp(hs[j].score, hs[i].score) < 0

\* the list without the element at position i (hyps.remove(max_hyp))
RemoveAt(hs, i) == SubSeq(hs, 1, i - 1) \o SubSeq(hs, i + 1, Len(hs))

\* hs[:] in place of hs[:k]: no truncation
TakeAll(hs, k) == hs

\* hs[:k]
Take(hs, k) == SubSeq(hs, 1, Min(k, Len(hs)))

(***************************************************************************)
(* default_beam_search                                                     *)
(***************************************************************************)
\* beam = min(self.beam_size, self.vocab_size)
beam == Min(self.beam_size, self.vocab_size)

\* beam_k = min(beam, (self.vocab_size - 1))
beam_k == Min(beam, self.vocab_size - 1)

\* durations_beam_k = min(beam, len(self.durations))
durations_beam_k == Min(beam, Len(self.durations))

\* The start hypothesis: blank, score 0, timestep [-1], last_frame 0; the LM
\* state is that of the sentence start (-1).
start_hyp == Hypothesis(ScoreZero, <<self.blank>>, <<-1>>, 0, -1)

\* torch.cartesian_prod(durations_logp_topks, logp_topks).sum(dim=-1): entry
\* f (0-based) pairs duration candidate f div width with token candidate
\* f mod width, width = len(logp_topk_idxs).
cartesian_sum(durations_logp, durations_logp_topk_idxs, logp, logp_topk_idxs) ==
    [f \in 1..(Len(durations_logp_topk_idxs) * Len(logp_topk_idxs)) |->
        LogPAdd(durations_logp[durations_logp_topk_idxs[
                    ((f - 1) \div Len(logp_topk_idxs)) + 1]],
                logp[logp_topk_idxs[((f - 1) % Len(logp_topk_idxs)) + 1]])]

\* The token index of entry f without the shift to 0-based token ids.
token_idx_one_based(f, logp_topk_idxs) ==
    logp_topk_idxs[((f - 1) % Len(logp_topk_idxs)) + 1]

\* the token index (0-based) of entry f (1-based) of the cartesian product
token_idx_of(f, logp_topk_idxs) ==
    logp_topk_idxs[((f - 1) % Len(logp_topk_idxs)) + 1] - 1

\* the duration index taken as the remainder of the flattened index
duration_idx_by_remainder(f, durations_logp_topk_idxs, logp_topk_idxs) ==
    durations_logp_topk_idxs[((f - 1) % Len(durations_logp_topk_idxs)) + 1]

\* the duration index (1-based) of entry f (1-based) of the cartesian product
duration_idx_of(f, durations_logp_topk_idxs, logp_topk_idxs) ==
    durations_logp_topk_idxs[((f - 1) \div Len(logp_topk_idxs)) + 1]

\* y_sequence=max_hyp.y_sequence + [token_idx]
extend_y_sequence(y_sequence, token_idx) == Append(y_sequence, token_idx)

\* timestep=max_hyp.timestep[:] in place of the extension
NoExtend(timestep, t, duration) == timestep

\* timestep=max_hyp.timestep + [time_idx + duration]
default_extend_timestep(timestep, t, duration) == Append(timestep, t + duration)

\* An expansion record: the hypothesis expanded, whether it emitted blank, the
\* duration taken and the new hypothesis.
Expansion(parent, blank, duration, child) ==
    [parent |-> parent, blank |-> blank, duration |-> duration, child |-> child]

\* the new hypothesis for a non-blank token
default_nonblank_child(max_hyp, t, token_idx, duration, total_logp) ==
    Expansion(max_hyp, FALSE, duration,
              Hypothesis(ScoreAdd(max_hyp.score, total_logp),
                         extend_y_sequence(max_hyp.y_sequence, token_idx),
                         default_extend_timestep(max_hyp.timestep, t, duration),
                         max_hyp.last_frame + duration,
                         max_hyp.ngram_lm_state))

\* the loop over total_logp_topk_idxs
default_nonblank_loop(max_hyp, t, logp_topk_idxs, durations_logp_topk_idxs, total_logp, total_logp_topk_idxs) ==
    [i \in 1..Len(total_logp_topk_idxs) |->
        default_nonblank_child(
            max_hyp, t,
            token_idx_of(total_logp_topk_idxs[i], logp_topk_idxs),
            self.durations[duration_idx_of(total_logp_topk_idxs[i],
                                           durations_logp_topk_idxs, logp_topk_idxs)],
            total_logp[total_logp_topk_idxs[i]])]

\* total_logp_topks, total_logp_topk_idxs = total_logp.topk(beam_k)
default_nonblank_totals(max_hyp, t, logp_topk_idxs, durations_logp_topk_idxs, total_logp) ==
    default_nonblank_loop(max_hyp, t, logp_topk_idxs, durations_logp_topk_idxs,
                          total_logp, topk(total_logp, beam_k))

\* the two top-k selections, their cartesian product and the non-blank loop
default_nonblank_topks(max_hyp, t, logp, durations_logp, logp_topk_idxs, durations_logp_topk_idxs) ==
    default_nonblank_totals(max_hyp, t, logp_topk_idxs, durations_logp_topk_idxs,
                            cartesian_sum(durations_logp, durations_logp_topk_idxs,
                                          logp, logp_topk_idxs))

\* The hypotheses built from the (token, duration) pairs with the highest
\* combined log-probability; logp[:-1] leaves the blank out.
default_nonblank_children(max_hyp, t) ==
    default_nonblank_topks(
        max_hyp, t,
        log_softmax(token_logits(joint(t))),
        log_softmax(duration_logits(joint(t))),
        topk(SubSeq(log_softmax(token_logits(joint(t))), 1, self.vocab_size), beam_k),
        topk(log_softmax(duration_logits(joint(t))), durations_beam_k))

\* The duration index a blank gets for candidate duration_idx out of a top-k of
\* topk_len candidates; 0 when the candidate is skipped.
default_blank_duration_idx(duration_idx, topk_len) ==
    IF duration_idx = zero_duration_idx
    THEN (IF topk_len = 1 THEN min_non_zero_duration_idx ELSE 0)
    ELSE duration_idx

\* the new hypothesis for blank with the duration at duration_idx
default_blank_child(max_hyp, logp, durations_logp, duration_idx) ==
    Expansion(max_hyp, TRUE, self.durations[duration_idx],
              Hypothesis(ScoreAdd(ScoreAdd(max_hyp.score, logp[self.blank + 1]),
                                  durations_logp[duration_idx]),
                         max_hyp.y_sequence,
                         max_hyp.timestep,
                         max_hyp.last_frame + self.durations[duration_idx],
                         max_hyp.ngram_lm_state))

\* the loop over durations_logp_topk_idxs, candidates in order
RECURSIVE default_blank_loop(_, _, _, _, _)
default_blank_loop(max_hyp, logp, durations_logp, idxs, topk_len) ==
    IF idxs = <<>> THEN <<>>
    ELSE (IF default_blank_duration_idx(Head(idxs), topk_len) = 0
          THEN <<>>
          ELSE <<default_blank_child(max_hyp, logp, durations_logp,
                                     default_blank_duration_idx(Head(idxs), topk_len))>>)
         \o default_blank_loop(max_hyp, logp, durations_logp, Tail(idxs), topk_len)

\* The blank hypotheses of a popped hypothesis.
default_blank_children(max_hyp, t) ==
    default_blank_loop(max_hyp,
                       log_softmax(token_logits(joint(t))),
                       log_softmax(duration_logits(joint(t))),
                       topk(log_softmax(duration_logits(joint(t))), durations_beam_k),
                       durations_beam_k)

\* the hypotheses of a list of expansion records
Children(exps) == [i \in 1..Len(exps) |-> exps[i].child]

\* [hyp for hyp in hs if hyp.last_frame == t], [... if hyp.last_frame > t]
OnFrame(hs, t) == SelectSeq(hs, LAMBDA h : h.last_frame = t)
AfterFrame(hs, t) == SelectSeq(hs, LAMBDA h : h.last_frame > t)

\* kept_most_prob: the kept hypotheses that beat the best one still on the frame
kept_whatever_the_score(kept, hyps_max) == SortedByScore(kept, FALSE)

\* kept_most_prob with `hyp.score >= hyps_max`
kept_not_below(kept, hyps_max) ==
    SortedByScore(SelectSeq(kept, LAMBDA h : ScoreCmp(h.score, hyps_max) >= 0), FALSE)

kept_most_prob(kept, hyps_max) ==
    SortedByScore(SelectSeq(kept, LAMBDA h : ScoreCmp(h.score, hyps_max) > 0), FALSE)

\* `x is not None`; None is the empty tuple, a value v is <<v>>
is_ignored(x) == FALSE

is_not_None(x) == x # <<>>

\* raise exc, with no handler up to the caller of the operation
RaiseAndGoOn(exc) == raised' = exc /\ pc' = "call"

Raise(exc) == raised' = exc /\ pc' = "raised"

\* default_beam_search up to its frame loop: the partial_hypotheses check, the
\* decoder's initial state and the blank hypothesis
DefaultBegin ==
    /\ pc = "search"
    /\ self.search_algorithm = "default_beam_search"
    /\ IF is_not_None(partial_hypotheses)
       THEN /\ Raise("NotImplementedError")
            /\ UNCHANGED <<kept_hyps, scorer_calls, cache>>
       ELSE \* self.decoder.initialize_state
            /\ scorer_calls' = scorer_calls + 1
            \* cache = {}
            /\ cache' = {}
            /\ kept_hyps' = <<start_hyp>>
            /\ pc' = "frame"
            /\ UNCHANGED raised
    /\ UNCHANGED <<self, joint_out, topk_ties, encoded_lengths, time_idx, hyps, n,
                   list_b, list_nb, list_exp, expanded, frame_end, nbest,
                   dedup_in, dedup_out, sort_in, partial_hypotheses, call_vars>>

\* for time_idx in range(int(encoded_lengths)): the head of one iteration
DefaultFrame ==
    /\ pc = "frame"
    /\ self.search_algorithm = "default_beam_search"
    /\ time_idx < encoded_lengths
    /\ hyps' = OnFrame(kept_hyps, time_idx)
    /\ kept_hyps' = AfterFrame(kept_hyps, time_idx)
    /\ IF OnFrame(kept_hyps, time_idx) = <<>>
       THEN pc' = "frame" /\ time_idx' = time_idx + 1 /\ frame_end' = "skipped"
       ELSE pc' = "pop" /\ time_idx' = time_idx /\ frame_end' = "open"
    /\ expanded' = <<>>
    /\ UNCHANGED <<self, joint_out, topk_ties, encoded_lengths, n, list_b,
                   list_nb, list_exp, nbest, dedup_in, dedup_out, sort_in>>
    /\ UNCHANGED <<partial_hypotheses, scorer_calls, cache, raised, call_vars>>

\* The rest of an iteration of `while len(hyps) > 0`, after max_hyp was removed
\* (rest), its expansions were made (exps), the zero-duration ones were added to
\* the working set (hyps1) and the others to the kept set, which was
\* deduplicated (kept1 before, kept2 after).
DefaultPopEnd(exps, hyps1, kept1, kept2) ==
    /\ expanded' = exps
    /\ dedup_in' = kept1
    /\ dedup_out' = kept2
    /\ hyps' = hyps1
    /\ IF Len(hyps1) > 0
       THEN IF Len(kept_most_prob(kept2, hyps1[FirstMax(hyps1)].score)) >= beam
            THEN /\ kept_hyps' = kept_most_prob(kept2, hyps1[FirstMax(hyps1)].score)
                 /\ pc' = "frame"
                 /\ time_idx' = time_idx + 1
                 /\ frame_end' = "early"
            ELSE /\ kept_hyps' = kept2
                 /\ pc' = "pop"
                 /\ time_idx' = time_idx
                 /\ frame_end' = "open"
       ELSE /\ kept_hyps' = Take(SortedByScore(kept2, TRUE), beam)
            /\ pc' = "frame"
            /\ time_idx' = time_idx + 1
            /\ frame_end' = "emptied"

\* an iteration of `while len(hyps) > 0` that expands nothing, after which the
\* frame starts again with the hypotheses it started with
DefaultPopSameFrameAgain ==
    /\ pc = "pop"
    /\ hyps' = <<>>
    /\ kept_hyps' = kept_hyps \o hyps
    /\ pc' = "frame"
    /\ frame_end' = "open"
    /\ UNCHANGED <<self, joint_out, topk_ties, encoded_lengths, time_idx, n,
                   list_b, list_nb, list_exp, expanded, nbest, dedup_in,
                   dedup_out, sort_in>>
    /\ UNCHANGED <<partial_hypotheses, scorer_calls, cache, raised, call_vars>>

\* an iteration of `while len(hyps) > 0` that pops hyps[i] and makes the
\* expansions nb for the tokens and b for the blank
DefaultPopOf(i, nb, b) ==
    /\ \E kept1 \in {kept_hyps
                     \o Children(SelectSeq(nb, LAMBDA x : x.duration # 0))
                     \o Children(b)} :
          DefaultPopEnd(nb \o b,
                        RemoveAt(hyps, i)
                            \o Children(SelectSeq(nb, LAMBDA x : x.duration = 0)),
                        kept1,
                        remove_duplicate_hypotheses(kept1))
    \* self.decoder.score_hypothesis and self.joint.joint
    /\ scorer_calls' = scorer_calls + 2
    /\ cache' = cache \cup {hyps[i].y_sequence}
    /\ UNCHANGED <<self, joint_out, topk_ties, encoded_lengths, n, list_b,
                   list_nb, list_exp, nbest, sort_in>>
    /\ UNCHANGED <<partial_hypotheses, raised, call_vars>>

\* one iteration of `while len(hyps) > 0`
DefaultPop ==
    /\ pc = "pop"
    /\ \E i \in {FirstMax(hyps)} :
       \E nb \in {default_nonblank_children(hyps[i], time_idx)} :
       \E b \in {default_blank_children(hyps[i], time_idx)} :
          DefaultPopOf(i, nb, b)

\* return self.sort_nbest(kept_hyps)
Return ==
    /\ pc = "frame"
    /\ time_idx = encoded_lengths
    /\ sort_in' = kept_hyps
    /\ nbest' = sort_nbest(self.score_norm, kept_hyps)
    /\ pc' = "done"
    /\ UNCHANGED <<self, joint_out, topk_ties, encoded_lengths, time_idx, hyps,
                   kept_hyps, n, list_b, list_nb, list_exp, expanded, frame_end,
                   dedup_in, dedup_out>>
    /\ UNCHANGED <<partial_hypotheses, scorer_calls, cache, raised, call_vars>>

(***************************************************************************)
(* modified_adaptive_expansion_search                                      *)
(***************************************************************************)
\* duration_beam = min(self.max_candidates, len(self.durations))
duration_beam == Min(self.max_candidates, Len(self.durations))

\* the n-gram LM: log-probability of label after the history summarised by state
ngram_lm_BaseScore(state, label) ==
    LogP(1, 1 + label + (IF state = label THEN 1 ELSE 0))

\* BeamTDTInfer.compute_ngram_score: (lm_score, next_state)
compute_ngram_score(current_lm_state, label) ==
    [lm_score |-> ngram_lm_BaseScore(current_lm_state, label + self.token_offset),
     next_state |-> label + self.token_offset]

\* score + k * lp for a natural number k
RECURSIVE ScoreAddTimes(_, _, _)
ScoreAddTimes(s, lp, k) ==
    IF k = 0 THEN s ELSE ScoreAddTimes(ScoreAdd(s, lp), lp, k - 1)

\* beam_masks that are all true: no pair is pruned
maes_within_any(total, best) == TRUE

\* total >= best - self.maes_expansion_gamma, gamma in units of ln 2
maes_within_gamma(total, best) ==
    LogPCmp(total, LogP(best.w, best.e + self.maes_expansion_gamma)) >= 0

\* hyp_expansions: (token, duration index, total_logp) of the kept pairs
maes_kexpansions(beam_idx_topks, beam_duration_idx_topks, beam_total_logp, beam_kexpansions_idxs) ==
    [i \in 1..Len(beam_kexpansions_idxs) |->
        [k |-> token_idx_of(beam_kexpansions_idxs[i], beam_idx_topks),
         duration_idx |-> duration_idx_of(beam_kexpansions_idxs[i],
                                          beam_duration_idx_topks, beam_idx_topks),
         total_logp |-> beam_total_logp[beam_kexpansions_idxs[i]]]]

\* beam_masks: the top pairs within maes_expansion_gamma of the best one
maes_expansions_pruned(beam_idx_topks, beam_duration_idx_topks, beam_total_logp, beam_total_logp_topk_idxs) ==
    maes_kexpansions(beam_idx_topks, beam_duration_idx_topks, beam_total_logp,
                     SelectSeq(beam_total_logp_topk_idxs,
                               LAMBDA f : maes_within_gamma(
                                   beam_total_logp[f],
                                   beam_total_logp[beam_total_logp_topk_idxs[1]])))

\* beam_total_logp.topk(self.max_candidates)
maes_expansions_totals(beam_idx_topks, beam_duration_idx_topks, beam_total_logp) ==
    maes_expansions_pruned(beam_idx_topks, beam_duration_idx_topks, beam_total_logp,
                           topk(beam_total_logp, self.max_candidates))

\* beam_total_logp: the sums of the top duration and top token log-probabilities
maes_expansions_topks(beam_logp, beam_duration_logp, beam_idx_topks, beam_duration_idx_topks) ==
    maes_expansions_totals(beam_idx_topks, beam_duration_idx_topks,
                           cartesian_sum(beam_duration_logp, beam_duration_idx_topks,
                                         beam_logp, beam_idx_topks))

\* hyp_expansions of a hypothesis at frame t: its top max_candidates (token,
\* duration) pairs that are within maes_expansion_gamma of the best.
maes_hyp_expansions(t) ==
    maes_expansions_topks(
        log_softmax(token_logits(joint(t))),
        log_softmax(duration_logits(joint(t))),
        topk(log_softmax(token_logits(joint(t))), self.max_candidates),
        topk(log_softmax(duration_logits(joint(t))), duration_beam))

\* Forcing blank token to have non-zero duration
maes_duration_idx(k, duration_idx) ==
    IF k = self.blank /\ zero_duration_idx # 0 /\ duration_idx = zero_duration_idx
    THEN min_non_zero_duration_idx
    ELSE duration_idx

\* new_hyp.timestep.append(time_idx)
maes_extend_timestep(timestep, t) == Append(timestep, t)

\* the score without the term of the LM
maes_score_without_lm(score, ngram_lm_state, k) == score

\* new_hyp.score += self.ngram_lm_alpha * lm_score
maes_lm_score(score, ngram_lm_state, k) ==
    IF self.ngram_lm
    THEN ScoreAddTimes(score, compute_ngram_score(ngram_lm_state, k).lm_score,
                       self.ngram_lm_alpha)
    ELSE score

\* new_hyp.ngram_lm_state after the token k
maes_lm_state(ngram_lm_state, k) ==
    IF self.ngram_lm THEN compute_ngram_score(ngram_lm_state, k).next_state
    ELSE ngram_lm_state

\* the hypothesis built for the expansion (k, duration, total_logp) of hyp
maes_new_hyp(hyp, k, duration, total_logp, t) ==
    Expansion(hyp, k = self.blank, duration,
        IF k = self.blank
        THEN Hypothesis(ScoreAdd(hyp.score, total_logp),
                        hyp.y_sequence,
                        hyp.timestep,
                        hyp.last_frame + duration,
                        hyp.ngram_lm_state)
        ELSE Hypothesis(maes_lm_score(ScoreAdd(hyp.score, total_logp),
                                      hyp.ngram_lm_state, k),
                        extend_y_sequence(hyp.y_sequence, k),
                        maes_extend_timestep(hyp.timestep, t),
                        hyp.last_frame + duration,
                        maes_lm_state(hyp.ngram_lm_state, k)))

\* the expansions of one hypothesis
maes_expand_hyp(hyp, hyp_expansions, t) ==
    [i \in 1..Len(hyp_expansions) |->
        maes_new_hyp(hyp,
                     hyp_expansions[i].k,
                     self.durations[maes_duration_idx(hyp_expansions[i].k,
                                                      hyp_expansions[i].duration_idx)],
                     hyp_expansions[i].total_logp,
                     t)]

\* the expansions of all hypotheses of the step, in the order the loops make them
RECURSIVE maes_step_expansions(_, _, _)
maes_step_expansions(hs, hyp_expansions, t) ==
    IF hs = <<>> THEN <<>>
    ELSE maes_expand_hyp(Head(hs), hyp_expansions, t)
         \o maes_step_expansions(Tail(hs), hyp_expansions, t)

\* If zero duration was obtained, change to the closest non-zero duration
maes_last_duration_idx(beam_max_duration_idx) ==
    IF beam_max_duration_idx = zero_duration_idx
    THEN min_non_zero_duration_idx
    ELSE beam_max_duration_idx

\* hyp.score += total_logp; hyp.last_frame += self.durations[duration_idx]
maes_fold_blank(hyp, beam_logp, beam_duration_logp, duration_idx) ==
    Expansion(hyp, TRUE, self.durations[duration_idx],
              [hyp EXCEPT
                 !.score = ScoreAdd(ScoreAdd(hyp.score, beam_logp[self.blank + 1]),
                                    beam_duration_logp[duration_idx]),
                 !.last_frame = hyp.last_frame + self.durations[duration_idx]])

\* last mAES step: the blank with the most probable duration is added to a
\* zero-duration expansion
maes_add_blank(hyp, t) ==
    maes_fold_blank(hyp,
                    log_softmax(token_logits(joint(t))),
                    log_softmax(duration_logits(joint(t))),
                    maes_last_duration_idx(
                        topk(log_softmax(duration_logits(joint(t))), 1)[1]))

\* modified_adaptive_expansion_search up to its frame loop: the
\* partial_hypotheses check, the decoder's initial state, the blank hypothesis
\* and its decoder output
MaesBegin ==
    /\ pc = "search"
    /\ self.search_algorithm = "modified_adaptive_expansion_search"
    /\ IF is_not_None(partial_hypotheses)
       THEN /\ Raise("NotImplementedError")
            /\ UNCHANGED <<kept_hyps, scorer_calls, cache>>
       ELSE \* self.decoder.initialize_state, self.decoder.batch_score_hypothesis
            /\ scorer_calls' = scorer_calls + 2
            \* cache = {}, then batch_score_hypothesis(init_tokens, cache, beam_state)
            /\ cache' = {start_hyp.y_sequence}
            /\ kept_hyps' = <<start_hyp>>
            /\ pc' = "frame"
            /\ UNCHANGED raised
    /\ UNCHANGED <<self, joint_out, topk_ties, encoded_lengths, time_idx, hyps, n,
                   list_b, list_nb, list_exp, expanded, frame_end, nbest,
                   dedup_in, dedup_out, sort_in, partial_hypotheses, call_vars>>

\* for time_idx in range(encoded_lengths): the head of one iteration
MaesFrame ==
    /\ pc = "frame"
    /\ self.search_algorithm = "modified_adaptive_expansion_search"
    /\ time_idx < encoded_lengths
    /\ hyps' = OnFrame(kept_hyps, time_idx)
    /\ kept_hyps' = AfterFrame(kept_hyps, time_idx)
    /\ IF OnFrame(kept_hyps, time_idx) = <<>>
       THEN \* if len(hyps) == 0: continue
            /\ pc' = "frame" /\ time_idx' = time_idx + 1 /\ frame_end' = "skipped"
            /\ UNCHANGED <<n, list_b, list_nb>>
       ELSE /\ pc' = "step" /\ time_idx' = time_idx /\ frame_end' = "open"
            /\ n' = 0
            /\ list_b' = <<>>
            /\ list_nb' = <<>>
    /\ expanded' = <<>>
    /\ UNCHANGED list_exp
    /\ UNCHANGED <<self, joint_out, topk_ties, encoded_lengths, nbest,
                   dedup_in, dedup_out, sort_in>>
    /\ UNCHANGED <<partial_hypotheses, scorer_calls, cache, raised, call_vars>>

\* the end of a frame: kept_hyps = kept_hyps + ...; remove duplicates; keep the
\* beam best
MaesFrameEnd(kept1, kept2, how) ==
    /\ kept_hyps' = Take(SortedByScore(kept2, TRUE), beam)
    /\ dedup_in' = kept1
    /\ dedup_out' = kept2
    /\ pc' = "frame"
    /\ time_idx' = time_idx + 1
    /\ frame_end' = how
    /\ UNCHANGED <<hyps, n>>

\* one step more than maes_num_steps before the blank is folded in
maes_one_step_more(step) == step < self.maes_num_steps

\* if n < (self.maes_num_steps - 1): this isn't the last mAES step
maes_not_last_step(step) == step < self.maes_num_steps - 1

\* the rest of a step, after the expansions exps were distributed over the lists
MaesStepEnd(exps, b, nb, ex) ==
    /\ list_b' = b
    /\ list_nb' = nb
    \* self.joint.joint on the step's hypotheses; batch_score_hypothesis on
    \* list_nb + list_exp; self.joint.joint for the blank of the last step
    /\ scorer_calls' = scorer_calls + 1
                        + (IF nb \o ex # <<>> THEN 1 ELSE 0)
                        + (IF ex # <<>> /\ ~maes_not_last_step(n) THEN 1 ELSE 0)
    \* batch_score_hypothesis(hyps_to_update, cache, beam_state)
    /\ cache' = cache \cup {(nb \o ex)[i].y_sequence : i \in 1..Len(nb \o ex)}
    /\ IF ex = <<>>
       THEN \* no token expansions: early exit
            /\ list_exp' = ex
            /\ expanded' = exps
            /\ \E kept1 \in {kept_hyps \o b \o nb} :
                  MaesFrameEnd(kept1, remove_duplicate_hypotheses(kept1), "early_exit")
       ELSE IF maes_not_last_step(n)
       THEN \* copy the expanded hypotheses for the next iteration
            /\ hyps' = remove_duplicate_hypotheses(ex)
            /\ dedup_in' = ex
            /\ dedup_out' = remove_duplicate_hypotheses(ex)
            /\ list_exp' = ex
            /\ expanded' = exps
            /\ n' = n + 1
            /\ UNCHANGED <<kept_hyps, time_idx, pc, frame_end>>
       ELSE \* last step: add the blank to the zero-duration expansions
            \E folded \in {[i \in 1..Len(ex) |-> maes_add_blank(ex[i], time_idx)]} :
            \E kept1 \in {kept_hyps \o b \o Children(folded) \o nb} :
               /\ list_exp' = Children(folded)
               /\ expanded' = exps \o folded
               /\ MaesFrameEnd(kept1, remove_duplicate_hypotheses(kept1), "last_step")

\* one iteration of `for n in range(self.maes_num_steps)`
MaesStep ==
    /\ pc = "step"
    /\ \E exps \in {maes_step_expansions(hyps, maes_hyp_expansions(time_idx), time_idx)} :
          MaesStepEnd(exps,
                      list_b \o Children(SelectSeq(exps, LAMBDA x : x.blank)),
                      list_nb \o Children(SelectSeq(exps,
                                   LAMBDA x : ~x.blank /\ x.duration # 0)),
                      Children(SelectSeq(exps, LAMBDA x : ~x.blank /\ x.duration = 0)))
    /\ UNCHANGED <<self, joint_out, topk_ties, encoded_lengths, nbest, sort_in>>
    /\ UNCHANGED <<partial_hypotheses, raised, call_vars>>

(***************************************************************************)
(* The decoders that BeamTDTInfer.__init__ accepts, and the samples.       *)
(***************************************************************************)
\* duration lists: in order, out of order, without a zero, with two zeros
DurationsSet == { <<0, 1, 2>>, <<2, 0, 1>>, <<1, 2, 3>>, <<0, 0, 1>> }

\* the search that __init__ binds to self.search_algorithm
greedy_when_beam_is_one(search_type, beam_size) ==
    IF search_type = "default"
    THEN IF beam_size = 1 THEN "greedy_search" ELSE "default_beam_search"
    ELSE "modified_adaptive_expansion_search"

search_algorithm_of(search_type, beam_size) ==
    IF search_type = "default" THEN "default_beam_search"
    ELSE "modified_adaptive_expansion_search"

BeamTDTInfer(search_type, beam_size, score_norm, durations, maes_expansion_beta, maes_expansion_gamma, ngram_lm, ngram_lm_alpha, return_best_hypothesis, maes_num_steps) ==
    [search_type |-> search_type,
     search_algorithm |-> search_algorithm_of(search_type, beam_size),
     beam_size |-> beam_size,
     score_norm |-> score_norm,
     return_best_hypothesis |-> return_best_hypothesis,
     durations |-> durations,
     vocab_size |-> 2,
     blank |-> 2,
     token_offset |-> 0,
     max_candidates |-> IF search_type = "maes"
                        THEN beam_size + maes_expansion_beta ELSE beam_size,
     maes_num_steps |-> maes_num_steps,
     maes_expansion_gamma |-> maes_expansion_gamma,
     ngram_lm |-> ngram_lm,
     ngram_lm_alpha |-> ngram_lm_alpha]

DefaultDecoders ==
    { BeamTDTInfer("default", b, sn, d, 0, 0, FALSE, 0, TRUE, 2) :
        b \in 1..MaxBeam, sn \in BOOLEAN, d \in DurationsSet }

MaesDecoders ==
    { dec \in { BeamTDTInfer("maes", c[1], sn, d, c[2], g, lm[1], lm[2], TRUE, 2) :
                  c \in (1..MaxBeam) \X (0..1), sn \in BOOLEAN, d \in DurationsSet,
                  g \in {1, 3}, lm \in {<<FALSE, 0>>, <<TRUE, 2>>} } :
        dec.vocab_size >= dec.max_candidates }

\* a decoding result of an earlier chunk, given as partial_hypotheses
SeedHyp == Hypothesis([m |-> <<1>>, e |-> 1], <<2, 0>>, <<-1, 0>>, 1, -1)

\* self.decoder.eval() and self.joint.eval(): neither module is in training mode
EvalMode == [decoder |-> FALSE, joint |-> FALSE]

\* no __call__ is under way
NotCalled ==
    /\ args = [call |-> "None"]
    /\ batch_idx = 0
    /\ batch_hypotheses = <<>>
    /\ decoded = <<>>
    /\ returned = <<>>
    /\ training = EvalMode
    /\ training_state = EvalMode

\* one call of self.search_algorithm
Init ==
    /\ self \in DefaultDecoders \cup MaesDecoders
    /\ topk_ties \in {"low", "high"}
    /\ encoded_lengths \in 0..MaxFrames
    /\ joint_out \in [0..(encoded_lengths - 1) -> ScorerOutputs]
    /\ partial_hypotheses \in { <<>>, <<SeedHyp>> }
    /\ scorer_calls = 0
    /\ cache = {}
    /\ raised = "None"
    /\ NotCalled
    /\ pc = "search"
    /\ time_idx = 0
    /\ hyps = <<>>
    /\ kept_hyps = <<>>
    /\ n = 0
    /\ list_b = <<>>
    /\ list_nb = <<>>
    /\ list_exp = <<>>
    /\ expanded = <<>>
    /\ frame_end = "none"
    /\ nbest = <<>>
    /\ dedup_in = <<>>
    /\ dedup_out = <<>>
    /\ sort_in = <<>>

Next ==
    \/ DefaultBegin
    \/ MaesBegin
    \/ DefaultFrame
    \/ DefaultPop
    \/ MaesFrame
    \/ MaesStep
    \/ Return

Spec == Init /\ [][Next]_vars

(***************************************************************************)
(* BeamTDTInfer.__init__ on any arguments, and greedy_search on the        *)
(* decoders it accepts.                                                    *)
(***************************************************************************)
\* the object before __init__ has returned
NoObject == [object |-> "None"]

\* the decoder_model given to __init__
decoder_model == [vocab_size |-> 2, blank_idx |-> 2]

\* `if ngram_lm_model:` of an Optional[str]
Truthy(ngram_lm_model) == ngram_lm_model \notin { "None", "" }

\* the checks __init__ makes once search_type is "maes"
init_raises_maes(a) ==
    IF a.maes_prefix_alpha < 0 THEN "ValueError"
    ELSE IF decoder_model.vocab_size < a.beam_size + a.maes_expansion_beta THEN "ValueError"
    ELSE IF a.maes_num_steps < 2 THEN "ValueError"
    ELSE "None"

\* the checks __init__ makes on ngram_lm_model
init_raises_lm_unchecked(a) == "None"

init_raises_lm(a) ==
    IF ~Truthy(a.ngram_lm_model) THEN "None"
    ELSE IF a.search_type # "maes" THEN "ValueError"
    ELSE IF a.KENLM_AVAILABLE THEN "None"
    ELSE "ImportError"

\* the exception __init__ raises on the arguments a, "None" when it returns
init_raises(a) ==
    IF a.preserve_alignments THEN "ValueError"
    ELSE IF a.beam_size < 1 THEN "ValueError"
    ELSE IF a.search_type \in { "tsd", "alsd", "nsc" } THEN "NotImplementedError"
    ELSE IF a.search_type \notin { "default", "maes" } THEN "NotImplementedError"
    ELSE IF a.search_type = "maes" /\ init_raises_maes(a) # "None" THEN init_raises_maes(a)
    ELSE init_raises_lm(a)

\* the object __init__ leaves when it returns
Constructed(a) ==
    BeamTDTInfer(a.search_type, a.beam_size, a.score_norm, a.durations,
                 a.maes_expansion_beta, a.maes_expansion_gamma,
                 Truthy(a.ngram_lm_model),
                 IF Truthy(a.ngram_lm_model) THEN a.ngram_lm_alpha ELSE 0,
                 a.return_best_hypothesis, a.maes_num_steps)

\* arguments of __init__, and whether the kenlm package is installed
InitArgs ==
    [ search_type : { "default", "maes", "tsd", "alsd", "nsc", "greedy" },
      beam_size : 0..MaxBeam,
      score_norm : { TRUE },
      return_best_hypothesis : { TRUE },
      durations : { <<0, 1, 2>> },
      maes_num_steps : 1..2,
      maes_prefix_alpha : { -1, 1 },
      maes_expansion_beta : -1..1,
      maes_expansion_gamma : { 1 },
      preserve_alignments : BOOLEAN,
      ngram_lm_model : { "None", "", "lm.bin" },
      ngram_lm_alpha : { 2 },
      KENLM_AVAILABLE : BOOLEAN ]

\* no search is under way
NotSearching ==
    /\ encoded_lengths = 0
    /\ joint_out = << >>
    /\ partial_hypotheses = <<>>
    /\ scorer_calls = 0
    /\ cache = {}
    /\ time_idx = 0
    /\ hyps = <<>>
    /\ kept_hyps = <<>>
    /\ n = 0
    /\ list_b = <<>>
    /\ list_nb = <<>>
    /\ list_exp = <<>>
    /\ expanded = <<>>
    /\ frame_end = "none"
    /\ nbest = <<>>
    /\ dedup_in = <<>>
    /\ dedup_out = <<>>
    /\ sort_in = <<>>

InitNew ==
    /\ self = NoObject
    /\ topk_ties = "low"
    /\ pc = "new"
    /\ raised = "None"
    /\ args \in InitArgs
    /\ batch_idx = 0
    /\ batch_hypotheses = <<>>
    /\ decoded = <<>>
    /\ returned = <<>>
    /\ training = EvalMode
    /\ training_state = EvalMode
    /\ NotSearching

\* BeamTDTInfer(**args)
Construct ==
    /\ pc = "new"
    /\ IF init_raises(args) = "None"
       THEN self' = Constructed(args) /\ pc' = "constructed" /\ UNCHANGED raised
       ELSE raised' = init_raises(args) /\ pc' = "init_raised" /\ UNCHANGED self
    /\ UNCHANGED <<topk_ties, search_vars, call_vars>>

\* self.greedy_search(h, encoded_lengths, partial_hypotheses)
GreedySearch ==
    /\ pc = "constructed"
    /\ encoded_lengths' \in 0..MaxFrames
    /\ partial_hypotheses' \in { <<>>, <<SeedHyp>> }
    /\ raised' = "NotImplementedError"
    /\ pc' = "greedy_raised"
    /\ UNCHANGED <<self, topk_ties, joint_out, time_idx, hyps, kept_hyps, n, list_b,
                   list_nb, list_exp, expanded, frame_end, nbest, dedup_in,
                   dedup_out, sort_in, scorer_calls, cache, call_vars>>

NextInit ==
    \/ Construct
    \/ GreedySearch

SpecInit == InitNew /\ [][NextInit]_vars

(***************************************************************************)
(* BeamTDTInfer.__call__: the samples of a batch are decoded one after the *)
(* other by self.search_algorithm.                                         *)
(***************************************************************************)
\* rnnt_beam_decoding.pack_hypotheses on one hypothesis: the -1 that starts
\* timestep is removed
pack_hypothesis(hyp) ==
    IF hyp.timestep # <<>> /\ Head(hyp.timestep) = -1
    THEN [hyp EXCEPT !.timestep = Tail(hyp.timestep)]
    ELSE hyp

pack_hypotheses(nbest_hyps) == [i \in 1..Len(nbest_hyps) |-> pack_hypothesis(nbest_hyps[i])]

\* rnnt_utils.NBestHypotheses
NBestHypotheses(n_best_hypotheses) == [n_best_hypotheses |-> n_best_hypotheses]

\* the result of one sample
always_NBestHypotheses(nbest_hyps) == NBestHypotheses(nbest_hyps)

best_hypothesis(nbest_hyps) ==
    IF self.return_best_hypothesis THEN nbest_hyps[1] ELSE NBestHypotheses(nbest_hyps)

\* the decoders of the batch calls: those __init__ accepts among these arguments
CallInitArgs ==
    [ search_type : { "default", "maes" },
      beam_size : 1..MaxBeam,
      score_norm : { TRUE },
      return_best_hypothesis : BOOLEAN,
      durations : { <<0, 1, 2>> },
      maes_num_steps : { 2 },
      maes_prefix_alpha : { 1 },
      maes_expansion_beta : { 0 },
      maes_expansion_gamma : { 1 },
      preserve_alignments : { FALSE },
      ngram_lm_model : { "None" },
      ngram_lm_alpha : { 2 },
      KENLM_AVAILABLE : { TRUE } ]

CallDecoders == { Constructed(a) : a \in { a0 \in CallInitArgs : init_raises(a0) = "None" } }

\* encoder outputs of one sample, padded to MaxFrames frames
CallFrames == { [t \in 0..(MaxFrames - 1) |-> v] : v \in { 2, 4 } }

\* encoder outputs of a sample of one frame: the padding differs
CallShortFrames ==
    { [t \in 0..(MaxFrames - 1) |-> IF t = 0 THEN 2 ELSE v] : v \in { 2, 4 } }

\* (encoder output, encoded length) of one sample
CallSamples ==
    { <<[t \in 0..(MaxFrames - 1) |-> 2], 0>> }
    \cup { <<f, 1>> : f \in CallShortFrames }
    \cup { <<f, MaxFrames>> : f \in CallFrames }

\* the arguments of __call__ for a batch of B samples
CallArgsOf(B) ==
    { [encoder_output |-> [i \in 1..B |-> ss[i][1]],
       encoded_lengths |-> [i \in 1..B |-> ss[i][2]],
       partial_hypotheses |-> ph] :
        ss \in [1..B -> CallSamples],
        ph \in { <<>> } \cup { <<l>> : l \in [1..B -> { <<>>, <<SeedHyp>> }] } }

\* the modes self.decoder.training and self.joint.training a caller can have set
TrainingStates == [decoder : BOOLEAN, joint : BOOLEAN]

\* __call__ up to its loop: the modes are saved, then both modules are put in
\* eval mode
InitCall ==
    /\ self \in CallDecoders
    /\ topk_ties = "low"
    /\ pc = "call"
    /\ raised = "None"
    /\ args \in UNION { CallArgsOf(B) : B \in 0..MaxBatch }
    /\ batch_idx = 0
    /\ batch_hypotheses = <<>>
    /\ decoded = <<>>
    /\ returned = <<>>
    /\ training_state \in TrainingStates
    /\ training = EvalMode
    /\ NotSearching

\* the frames of the first sample of the batch, cut to the length of sample idx
inseq_of_first(encoder_output, lengths, idx) ==
    [t \in 0..(lengths[idx + 1] - 1) |-> encoder_output[1][t]]

\* inseq = encoder_output[batch_idx : batch_idx + 1, : encoded_lengths[batch_idx], :]
inseq(encoder_output, lengths, idx) ==
    [t \in 0..(lengths[idx + 1] - 1) |-> encoder_output[idx + 1][t]]

\* for batch_idx in idx_gen: the head of one iteration, up to the call of
\* self.search_algorithm
CallSample ==
    /\ pc = "call"
    /\ batch_idx < Len(args.encoder_output)
    /\ encoded_lengths' = args.encoded_lengths[batch_idx + 1]
    /\ joint_out' = inseq(args.encoder_output, args.encoded_lengths, batch_idx)
    /\ partial_hypotheses' = IF is_not_None(args.partial_hypotheses)
                             THEN args.partial_hypotheses[1][batch_idx + 1]
                             ELSE <<>>
    /\ scorer_calls' = 0
    /\ UNCHANGED cache
    /\ time_idx' = 0
    /\ hyps' = <<>>
    /\ kept_hyps' = <<>>
    /\ n' = 0
    /\ list_b' = <<>>
    /\ list_nb' = <<>>
    /\ list_exp' = <<>>
    /\ expanded' = <<>>
    /\ frame_end' = "none"
    /\ nbest' = <<>>
    /\ dedup_in' = <<>>
    /\ dedup_out' = <<>>
    /\ sort_in' = <<>>
    /\ pc' = "search"
    /\ UNCHANGED <<self, topk_ties, raised, call_vars>>

\* the rest of the iteration, after self.search_algorithm returned nbest
CallPack ==
    /\ pc = "done"
    /\ IF self.return_best_hypothesis /\ nbest = <<>>
       THEN /\ Raise("IndexError")
            /\ UNCHANGED <<batch_hypotheses, decoded, batch_idx>>
       ELSE /\ batch_hypotheses' = Append(batch_hypotheses,
                                         best_hypothesis(pack_hypotheses(nbest)))
            /\ decoded' = Append(decoded, [batch_idx |-> batch_idx,
                                           encoded_lengths |-> encoded_lengths,
                                           joint_out |-> joint_out,
                                           nbest_hyps |-> nbest])
            /\ batch_idx' = batch_idx + 1
            /\ pc' = "call"
            /\ UNCHANGED raised
    /\ UNCHANGED <<self, topk_ties, search_vars, args, returned, training,
                   training_state>>

\* self.decoder.train(decoder_training_state),
\* self.joint.train(joint_training_state) and return (hypotheses,)
CallReturn ==
    /\ pc = "call"
    /\ batch_idx = Len(args.encoder_output)
    /\ training' = training_state
    /\ returned' = <<batch_hypotheses>>
    /\ pc' = "returned"
    /\ UNCHANGED <<self, topk_ties, raised, search_vars, args, batch_idx,
                   batch_hypotheses, decoded, training_state>>

NextCall ==
    \/ CallSample
    \/ DefaultBegin
    \/ MaesBegin
    \/ DefaultFrame
    \/ DefaultPop
    \/ MaesFrame
    \/ MaesStep
    \/ Return
    \/ CallPack
    \/ CallReturn

SpecCall == InitCall /\ [][NextCall]_vars

(***************************************************************************)
(* remove_duplicate_hypotheses and sort_nbest on their own: the list in    *)
(* kept_hyps is any list of at most MaxList hypotheses, and one of the two *)
(* functions is applied to it.                                             *)
(***************************************************************************)
\* log-probabilities ln(1/2) and ln(1/4)
PureScores == { [m |-> <<1>>, e |-> 1], [m |-> <<1>>, e |-> 2] }

\* hypotheses of one label ending on frame 1 or 2, and of two labels ending on
\* frame 1
PureHyps ==
    { Hypothesis(s, <<2>>, <<-1>>, f, -1) : s \in PureScores, f \in 1..2 }
    \cup { Hypothesis(s, <<2, 0>>, <<-1, 0>>, 1, -1) : s \in PureScores }

RECURSIVE ListsUpTo(_, _)
ListsUpTo(S, k) ==
    IF k = 0 THEN { <<>> }
    ELSE ListsUpTo(S, k - 1)
         \cup { Append(l, x) : l \in { l0 \in ListsUpTo(S, k - 1) : Len(l0) = k - 1 },
                               x \in S }

InitPure ==
    /\ self \in { BeamTDTInfer("default", 1, sn, <<0, 1, 2>>, 0, 0, FALSE, 0, TRUE, 2) :
                    sn \in BOOLEAN }
    /\ topk_ties = "low"
    /\ encoded_lengths = 0
    /\ joint_out = << >>
    /\ partial_hypotheses = <<>>
    /\ scorer_calls = 0
    /\ cache = {}
    /\ raised = "None"
    /\ NotCalled
    /\ pc = "pure"
    /\ time_idx = 0
    /\ hyps = <<>>
    /\ kept_hyps \in ListsUpTo(PureHyps, MaxList)
    /\ n = 0
    /\ list_b = <<>>
    /\ list_nb = <<>>
    /\ list_exp = <<>>
    /\ expanded = <<>>
    /\ frame_end = "none"
    /\ nbest = <<>>
    /\ dedup_in = <<>>
    /\ dedup_out = <<>>
    /\ sort_in = <<>>

\* kept_hyps = self.remove_duplicate_hypotheses(kept_hyps)
PureDedup ==
    /\ pc = "pure"
    /\ dedup_in' = kept_hyps
    /\ dedup_out' = remove_duplicate_hypotheses(kept_hyps)
    /\ pc' = "deduped"
    /\ UNCHANGED <<self, joint_out, topk_ties, encoded_lengths, time_idx, hyps,
                   kept_hyps, n, list_b, list_nb, list_exp, expanded, frame_end,
                   nbest, sort_in>>
    /\ UNCHANGED <<partial_hypotheses, scorer_calls, cache, raised, call_vars>>

\* self.sort_nbest(kept_hyps)
PureSort ==
    /\ pc = "pure"
    /\ sort_in' = kept_hyps
    /\ nbest' = sort_nbest(self.score_norm, kept_hyps)
    /\ pc' = "sorted"
    /\ UNCHANGED <<self, joint_out, topk_ties, encoded_lengths, time_idx, hyps,
                   kept_hyps, n, list_b, list_nb, list_exp, expanded, frame_end,
                   dedup_in, dedup_out>>
    /\ UNCHANGED <<partial_hypotheses, scorer_calls, cache, raised, call_vars>>

NextPure ==
    \/ PureDedup
    \/ PureSort

SpecPure == InitPure /\ [][NextPure]_vars

(***************************************************************************)
(* Properties of remove_duplicate_hypotheses.                              *)
(***************************************************************************)
\* the key of a hypothesis in remove_duplicate_hypotheses
Key(h) == <<h.y_sequence, h.last_frame>>

\* no two hypotheses of the list have the same key
NoDuplicates(hs) ==
    \A i \in 1..Len(hs) : \A j \in 1..Len(hs) : i # j => Key(hs[i]) # Key(hs[j])

\* the positions of hs holding the key k
WithKey(hs, k) == { i \in 1..Len(hs) : Key(hs[i]) = k }

\* the natural number a digit sequence stands for
RECURSIVE BigValue(_)
BigValue(a) == IF a = <<>> THEN 0 ELSE Head(a) + Base * BigValue(Tail(a))

\* the largest exponent among the scores of a list
RECURSIVE MaxExp(_)
MaxExp(hs) ==
    IF hs = <<>> THEN 0
    ELSE IF Head(hs).score.e >= MaxExp(Tail(hs)) THEN Head(hs).score.e
                                                 ELSE MaxExp(Tail(hs))

\* exp(score) * 2^E as a natural number, for E at least the score's exponent
Mass(score, E) == BigValue(score.m) * 2^(E - score.e)

\* sum of exp(score) * 2^E over the positions I of hs
RECURSIVE MassOver(_, _, _)
MassOver(hs, I, E) ==
    IF I = {} THEN 0
    ELSE LET i == CHOOSE x \in I : TRUE
         IN Mass(hs[i].score, E) + MassOver(hs, I \ {i}, E)

\* C1: after a call of remove_duplicate_hypotheses, whatever the list given to
\* it, no two hypotheses of the returned list have the same y_sequence and the
\* same last_frame.
C1_NoDuplicatesAfterDedup == pc = "deduped" => NoDuplicates(dedup_out)

\* the call was given duplicates and returned fewer hypotheses
C1_Witness ==
    /\ pc = "deduped"
    /\ ~NoDuplicates(dedup_in)
    /\ Len(dedup_out) < Len(dedup_in)

C3_KeptSetHasNoDuplicates ==
    /\ pc = "frame" => NoDuplicates(kept_hyps)
    /\ pc = "done" => NoDuplicates(nbest)

\* a frame ended by early termination after a deduplication that merged
\* hypotheses
C3_Witness ==
    /\ pc = "frame"
    /\ frame_end = "early"
    /\ Len(dedup_out) < Len(dedup_in)

\* C4: after every truncation step (default search: the working set of a frame
\* emptied; mAES: the merge at the end of a processed frame) the kept set has
\* at most beam_size hypotheses.
C4_TruncatedToBeam ==
    frame_end \in {"emptied", "early_exit", "last_step"} =>
        Len(kept_hyps) <= self.beam_size

\* a truncation that dropped hypotheses
C4_Witness ==
    /\ frame_end \in {"emptied", "early_exit", "last_step"}
    /\ Len(dedup_out) > self.beam_size
    /\ Len(kept_hyps) = self.beam_size

\* C5: in both strategies, for durations that are non-negative with at least
\* one positive value (every list of DurationsSet), every expansion has
\* child.last_frame >= parent.last_frame, and every blank expansion, the blank
\* folded into the zero-duration expansions of the last mAES step included,
\* has child.last_frame > parent.last_frame.
C5_MonotonicFrameAdvance ==
    \A i \in 1..Len(expanded) :
        /\ expanded[i].child.last_frame >= expanded[i].parent.last_frame
        /\ expanded[i].blank =>
              expanded[i].child.last_frame > expanded[i].parent.last_frame

\* a blank expansion that stays on the frame of its parent: the duration list
\* holds two zeros and the blank took the second one
C5_Witness ==
    /\ \A i \in 1..Len(self.durations) : self.durations[i] >= 0
    /\ \E i \in 1..Len(self.durations) : self.durations[i] > 0
    /\ \E i \in 1..Len(expanded) :
          /\ expanded[i].blank
          /\ expanded[i].duration = 0
          /\ expanded[i].child.last_frame = expanded[i].parent.last_frame

\* the lengths of y_sequence and timestep agree for every hypothesis of hs
LengthsAgree(hs) == \A i \in 1..Len(hs) : Len(hs[i].y_sequence) = Len(hs[i].timestep)

\* C6: at every point of either strategy, every hypothesis of the working set,
\* the kept set, the mAES blank, non-blank and expansion lists and the returned
\* list has len(y_sequence) = len(timestep), from the start hypothesis on.
C6_SequenceAndTimestepLengthsAgree ==
    /\ LengthsAgree(hyps)
    /\ LengthsAgree(kept_hyps)
    /\ LengthsAgree(list_b)
    /\ LengthsAgree(list_nb)
    /\ LengthsAgree(list_exp)
    /\ LengthsAgree(nbest)

\* a returned hypothesis that was extended by two tokens
C6_Witness ==
    /\ pc = "done"
    /\ \E i \in 1..Len(nbest) :
          /\ Len(nbest[i].y_sequence) = 3
          /\ Len(nbest[i].timestep) = 3

(***************************************************************************)
(* Properties of sort_nbest.  The lists given to it hold scores ln(2^-e),  *)
(* for which score/len >= score'/len' is e * len' <= e' * len.             *)
(***************************************************************************)
\* every score of the list is ln(2^-e) for some e
PowerOfTwoScores(hs) == \A i \in 1..Len(hs) : hs[i].score.m = <<1>>

\* key(a) >= key(b): the key is score/len(y_sequence) when score_norm is true,
\* and the raw score when it is false
KeyGE(a, b, score_norm) ==
    IF score_norm
    THEN a.score.e * Len(b.y_sequence) <= b.score.e * Len(a.y_sequence)
    ELSE a.score.e <= b.score.e

\* C7 as stated: with score_norm = true, for any two hypotheses A and B of the
\* list given to sort_nbest, A is before B in the returned list if and only if
\* A.score/len(A.y_sequence) >= B.score/len(B.y_sequence).
C7_BeforeIffKeyAtLeast ==
    (pc = "sorted" /\ self.score_norm) =>
        /\ PowerOfTwoScores(nbest)
        /\ \A i \in 1..Len(nbest) : \A j \in 1..Len(nbest) :
              i # j => (i < j <=> KeyGE(nbest[i], nbest[j], TRUE))

\* C7, amended: with score_norm = true, a hypothesis A that is before B in the
\* returned list has A.score/len(A.y_sequence) >= B.score/len(B.y_sequence),
\* and a hypothesis A with a strictly larger key than B is before B; two
\* hypotheses with equal keys are in one order only.
C7_BeforeImpliesKeyAtLeast ==
    (pc = "sorted" /\ self.score_norm) =>
        /\ PowerOfTwoScores(nbest)
        /\ \A i \in 1..Len(nbest) : \A j \in 1..Len(nbest) :
              /\ i < j => KeyGE(nbest[i], nbest[j], TRUE)
              /\ ~KeyGE(nbest[j], nbest[i], TRUE) => i < j

\* a list that sort_nbest reordered, holding two hypotheses of different
\* lengths with equal keys
C7_Witness ==
    /\ pc = "sorted"
    /\ self.score_norm
    /\ nbest # sort_in
    /\ \E i \in 1..Len(nbest) : \E j \in 1..Len(nbest) :
          /\ i < j
          /\ Len(nbest[i].y_sequence) # Len(nbest[j].y_sequence)
          /\ KeyGE(nbest[i], nbest[j], TRUE)
          /\ KeyGE(nbest[j], nbest[i], TRUE)

\* the permutations of 1..k
PermutationsOf(k) == Permutations(1..k)

\* C8: sort_nbest returns a permutation of its input, ordered by non-increasing
\* key (score/len(y_sequence) when score_norm is true, the raw score when it is
\* false), in which hypotheses of equal keys keep the relative order they have
\* in the input.
C8_StableSortedPermutation ==
    pc = "sorted" =>
        /\ PowerOfTwoScores(sort_in)
        /\ Len(nbest) = Len(sort_in)
        /\ \E p \in PermutationsOf(Len(sort_in)) :
              /\ \A k \in 1..Len(nbest) : nbest[k] = sort_in[p[k]]
              /\ \A k \in 1..Len(nbest) : \A l \in 1..Len(nbest) :
                    k < l =>
                        /\ KeyGE(nbest[k], nbest[l], self.score_norm)
                        /\ KeyGE(nbest[l], nbest[k], self.score_norm) => p[k] < p[l]

\* a list that sort_nbest reordered and in which two different hypotheses have
\* equal raw scores, ranked by the raw score
C8_Witness ==
    /\ pc = "sorted"
    /\ ~self.score_norm
    /\ nbest # sort_in
    /\ \E i \in 1..Len(sort_in) : \E j \in 1..Len(sort_in) :
          /\ i < j
          /\ sort_in[i] # sort_in[j]
          /\ sort_in[i].score = sort_in[j].score

(***************************************************************************)
(* The concrete scenario: 2 tokens (0, 1) and blank (2), durations         *)
(* [0, 1, 2], 2 encoder frames, beam_size = 2, default search, and a       *)
(* scorer that returns the same logits for every frame, with token 0 and   *)
(* duration 1 the most probable.                                           *)
(***************************************************************************)
\* position i holds the strictly largest value of ws
StrictlyLargest(ws, i) == \A j \in 1..Len(ws) : j # i => ws[i] > ws[j]

Scenario ==
    /\ self.search_type = "default"
    /\ self.vocab_size = 2
    /\ self.blank = 2
    /\ self.durations = <<0, 1, 2>>
    /\ self.beam_size = 2
    /\ encoded_lengths = 2
    /\ joint_out[0] = joint_out[1]
    /\ StrictlyLargest(token_logits(joint(0)), 1)
    /\ StrictlyLargest(duration_logits(joint(0)), 2)

\* frame 0 is finished
AfterFrame0 == pc = "frame" /\ time_idx = 1

\* the kept set holds y_sequence [blank, 0] with last_frame 1
KeptHasBlank0At1 ==
    \E i \in 1..Len(kept_hyps) :
        kept_hyps[i].y_sequence = <<2, 0>> /\ kept_hyps[i].last_frame = 1

\* C10 as stated: in the scenario, once frame 0 is finished the kept set holds
\* a hypothesis with y_sequence [blank, 0] and last_frame 1, and the first
\* hypothesis of the list returned after frame 1 has y_sequence [blank, 0, 0].
C10_ScenarioTopIsBlank00 ==
    Scenario =>
        /\ AfterFrame0 => KeptHasBlank0At1
        /\ pc = "done" => nbest[1].y_sequence = <<2, 0, 0>>

\* C10, amended: in the scenario, once frame 0 is finished the kept set holds
\* a hypothesis with y_sequence [blank, 0] and last_frame 1; the list returned
\* after frame 1 holds a hypothesis with y_sequence [blank, 0, 0], and it is
\* the first one when token 0 is more than twice as probable as blank.  (The
\* other returned hypothesis is [blank, 0], which merges the two ways of
\* emitting token 0 and blank over the two frames.)
C10_ScenarioHasBlank00 ==
    Scenario =>
        /\ AfterFrame0 => KeptHasBlank0At1
        /\ pc = "done" =>
              /\ \E i \in 1..Len(nbest) : nbest[i].y_sequence = <<2, 0, 0>>
              /\ token_logits(joint(0))[1] > 2 * token_logits(joint(0))[3] =>
                    nbest[1].y_sequence = <<2, 0, 0>>

\* the scenario ran to its end with a scorer that makes token 0 more than twice
\* as probable as blank, and [blank, 0, 0] is returned first
C10_Witness ==
    /\ Scenario
    /\ pc = "done"
    /\ token_logits(joint(0))[1] > 2 * token_logits(joint(0))[3]
    /\ nbest[1].y_sequence = <<2, 0, 0>>
    /\ Len(nbest) = 2

(***************************************************************************)
(* Properties of __call__.                                                 *)
(***************************************************************************)
\* the same hypothesis: its tokens, its score and its last frame
SameHypothesis(a, b) ==
    a.y_sequence = b.y_sequence /\ a.score = b.score /\ a.last_frame = b.last_frame

\* a result that is a list of hypotheses, not one hypothesis
IsNBest(r) == "n_best_hypotheses" \in DOMAIN r

\* the result r is the whole ranked list l, in its order
IsWholeList(r, l) ==
    /\ IsNBest(r)
    /\ Len(r.n_best_hypotheses) = Len(l)
    /\ \A j \in 1..Len(l) : SameHypothesis(r.n_best_hypotheses[j], l[j])

\* the result r is the first hypothesis of the ranked list l and nothing else
IsFirstOnly(r, l) == ~IsNBest(r) /\ SameHypothesis(r, l[1])

\* C11: a call on a batch of B samples returns B results in batch order;
\* result i is the first hypothesis of the ranked list the search returned for
\* sample i when return_best_hypothesis is set, and that whole list in its
\* order when it is not.
C11_BatchResultsInOrder ==
    pc = "returned" =>
        /\ Len(returned) = 1
        /\ Len(returned[1]) = Len(args.encoder_output)
        /\ Len(decoded) = Len(args.encoder_output)
        /\ \A i \in 1..Len(decoded) :
              /\ decoded[i].batch_idx = i - 1
              /\ decoded[i].encoded_lengths = args.encoded_lengths[i]
              /\ \A t \in 0..(args.encoded_lengths[i] - 1) :
                    decoded[i].joint_out[t] = args.encoder_output[i][t]
              /\ IF self.return_best_hypothesis
                 THEN IsFirstOnly(returned[1][i], decoded[i].nbest_hyps)
                 ELSE IsWholeList(returned[1][i], decoded[i].nbest_hyps)

\* a batch of two different samples was decoded with return_best_hypothesis,
\* and the ranked list of the first sample had more than one hypothesis
C11_Witness ==
    /\ pc = "returned"
    /\ self.return_best_hypothesis
    /\ Len(returned[1]) = 2
    /\ Len(decoded[1].nbest_hyps) > 1
    /\ decoded[1].nbest_hyps # decoded[2].nbest_hyps
    /\ returned[1][1] # returned[1][2]

(***************************************************************************)
(* Properties of __init__ and of greedy_search.                            *)
(***************************************************************************)
\* an ngram_lm_model is given: a path, not None and not the empty string
LmGiven(a) == a.ngram_lm_model \notin { "None", "" }

\* the configurations that are to be rejected
MustBeRejected(a) ==
    \/ a.beam_size < 1
    \/ a.preserve_alignments
    \/ a.search_type \in { "tsd", "alsd", "nsc" }
    \/ a.search_type \notin { "default", "maes" }
    \/ /\ a.search_type = "maes"
       /\ \/ a.maes_num_steps < 2
          \/ a.maes_prefix_alpha < 0
          \/ decoder_model.vocab_size < a.beam_size + a.maes_expansion_beta
    \/ LmGiven(a) /\ a.search_type # "maes"
    \/ LmGiven(a) /\ ~a.KENLM_AVAILABLE

C13_NegativeBetaRejected ==
    /\ (pc # "new" /\ args.search_type = "maes" /\ args.maes_expansion_beta < 0)
          => pc = "init_raised"
    /\ (pc = "constructed" /\ self.search_type = "maes")
          => self.max_candidates >= self.beam_size

\* a maes decoder was constructed with maes_expansion_beta = -1 and fewer
\* candidates than its beam
C13_Witness ==
    /\ pc = "constructed"
    /\ self.search_type = "maes"
    /\ args.maes_expansion_beta = -1
    /\ self.max_candidates < self.beam_size

SampleHasSeed ==
    /\ pc \notin { "call", "returned" }
    /\ args.partial_hypotheses # <<>>
    /\ args.partial_hypotheses[1][batch_idx + 1] # <<>>

\* C14: when a sample comes with a partial hypothesis, the search (default or
\* mAES) receives it and ends with NotImplementedError before any call of the
\* decoder or of the joint, and returns no hypothesis: the search never runs on
\* as if the seed were absent.
C14_SeedRaisesBeforeAnyScorerCall ==
    SampleHasSeed =>
        /\ partial_hypotheses # <<>>
        /\ scorer_calls = 0
        /\ nbest = <<>>
        /\ returned = <<>>
        /\ \/ pc = "search" /\ raised = "None"
           \/ pc = "raised" /\ raised = "NotImplementedError"

\* the mAES search of the second sample of a batch raised on its seed
C14_Witness ==
    /\ SampleHasSeed
    /\ pc = "raised"
    /\ raised = "NotImplementedError"
    /\ self.search_type = "maes"
    /\ batch_idx = 1
    /\ scorer_calls = 0

\* C15: when the decode of sample i fails, the call fails: nothing is returned,
\* the results of samples 0..i-1 included, and no later sample is decoded (the
\* call takes no further step).
C15_SampleFailureAbortsBatch ==
    /\ [](raised # "None" =>
            /\ pc = "raised"
            /\ returned = <<>>
            /\ Len(decoded) = batch_idx
            /\ Len(batch_hypotheses) = batch_idx)
    /\ [][raised = "None"]_vars

\* the second of two samples failed after the first was decoded
C15_Witness ==
    /\ pc = "raised"
    /\ batch_idx = 1
    /\ Len(args.encoder_output) = 2
    /\ Len(batch_hypotheses) = 1
    /\ returned = <<>>

(***************************************************************************)
(* Algebraic properties of remove_duplicate_hypotheses.                    *)
(***************************************************************************)
\* the (key, exp(score) * 2^E) pairs of a list
KeyMasses(hs, E) == { <<Key(hs[i]), Mass(hs[i].score, E)>> : i \in 1..Len(hs) }

\* the list hs in the order p
Permuted(hs, p) == [i \in 1..Len(hs) |-> hs[p[i]]]

\* C17: remove_duplicate_hypotheses returns the same keys (token sequence,
\* last frame), each with the same merged score, for every order of its input
\* list.
C17_MergeIsOrderIndependent ==
    pc = "deduped" =>
        \E want \in { KeyMasses(dedup_out, MaxExp(dedup_in)) } :
        \A l \in { Permuted(dedup_in, p) : p \in PermutationsOf(Len(dedup_in)) } :
        \E r \in { remove_duplicate_hypotheses(l) } :
            /\ Len(r) = Len(dedup_out)
            /\ KeyMasses(r, MaxExp(dedup_in)) = want

\* a list of four with two duplicates of different scores between hypotheses
\* of other keys was deduplicated
C17_Witness ==
    /\ pc = "deduped"
    /\ Len(dedup_in) = 4
    /\ Len(dedup_out) = 3
    /\ Key(dedup_in[1]) = Key(dedup_in[4])
    /\ dedup_in[1].score # dedup_in[4].score
    /\ Key(dedup_in[2]) # Key(dedup_in[3])

AfterPop ==
    /\ self.search_type = "default"
    /\ pc \in { "pop", "frame" }
    /\ frame_end \in { "open", "early", "emptied" }
    /\ expanded # <<>>

\* no frame of the sample gives two tokens, or two durations, the same
\* probability
NoTies == \A t \in DOMAIN joint_out : joint_out[t] # 4

\* C19: after each pop-and-expand iteration of the default search neither the
\* working set of the frame nor the pending set holds two hypotheses of the
\* same token sequence and last frame.
C19_NoDuplicatesInFrontier ==
    AfterPop => (NoDuplicates(hyps) /\ NoDuplicates(kept_hyps))

\* a zero-duration expansion has entered the working set next to a hypothesis
\* of the same token sequence and last frame, with durations [0, 1, 2] and a
\* scorer without ties
C19_Witness ==
    /\ AfterPop
    /\ self.durations = <<0, 1, 2>>
    /\ NoTies
    /\ \E x \in 1..Len(expanded) : \E i \in 1..Len(hyps) : \E j \in 1..Len(hyps) :
          /\ ~expanded[x].blank
          /\ expanded[x].duration = 0
          /\ hyps[j] = expanded[x].child
          /\ i # j
          /\ Key(hyps[i]) = Key(hyps[j])

\* C20 as stated: the kept set the default search carries into the next frame,
\* and the list it returns, have at most min(beam_size, vocab_size) hypotheses,
\* however the frame ended.
C20_KeptAndReturnedWithinBeam ==
    self.search_type = "default" =>
        /\ (pc = "frame" /\ frame_end # "none") => Len(kept_hyps) <= beam
        /\ pc = "done" => Len(nbest) <= beam

\* C20, amended: a frame that ends by its working set emptying leaves at most
\* min(beam_size, vocab_size) kept hypotheses; one that ends by early
\* termination leaves at least that many, each of a score above every
\* hypothesis left in the working set; the returned list has the hypotheses of
\* the last kept set.
C20_KeptWithinBeamUnlessEarly ==
    self.search_type = "default" =>
        /\ (pc = "frame" /\ frame_end = "emptied") => Len(kept_hyps) <= beam
        /\ (pc = "frame" /\ frame_end = "early") =>
              /\ Len(kept_hyps) >= beam
              /\ hyps # <<>>
              /\ \A i \in 1..Len(kept_hyps) : \A j \in 1..Len(hyps) :
                    ScoreCmp(kept_hyps[i].score, hyps[j].score) > 0
        /\ pc = "done" => Len(nbest) = Len(kept_hyps)

\* a frame ended by early termination with more kept hypotheses than the beam,
\* with durations [0, 1, 2] and a scorer without ties
C20_Witness ==
    /\ self.search_type = "default"
    /\ pc = "frame"
    /\ frame_end = "early"
    /\ self.durations = <<0, 1, 2>>
    /\ NoTies
    /\ Len(kept_hyps) > beam

(***************************************************************************)
(* Early termination of a frame of default_beam_search.                    *)
(***************************************************************************)
\* the most iterations of `while len(hyps) > 0` followed past an early
\* termination
MaxDrain == 3

\* the working set after one more iteration of `while len(hyps) > 0`
default_pop_hyps(hs, t) ==
    RemoveAt(hs, FirstMax(hs))
        \o Children(SelectSeq(default_nonblank_children(hs[FirstMax(hs)], t),
                              LAMBDA x : x.duration = 0))

\* the pending set after one more iteration of `while len(hyps) > 0`
default_pop_kept(hs, kept, t) ==
    remove_duplicate_hypotheses(
        kept
        \o Children(SelectSeq(default_nonblank_children(hs[FirstMax(hs)], t),
                              LAMBDA x : x.duration # 0))
        \o Children(default_blank_children(hs[FirstMax(hs)], t)))

\* The kept set of a frame whose loop goes on, without the early-termination
\* test, until the working set is empty: <<kept set>>, or <<>> when the working
\* set is not empty after k more iterations.
RECURSIVE expand_until_empty(_, _, _, _)
expand_until_empty(hs, kept, t, k) ==
    IF hs = <<>> THEN << Take(SortedByScore(kept, TRUE), beam) >>
    ELSE IF k = 0 THEN <<>>
    ELSE expand_until_empty(default_pop_hyps(hs, t), default_pop_kept(hs, kept, t),
                            t, k - 1)

\* the hypotheses of a have the keys and the scores of the hypotheses of b
SameKeysAndScores(a, b) ==
    /\ \A i \in 1..Len(a) : \E j \in 1..Len(b) :
          Key(a[i]) = Key(b[j]) /\ ScoreCmp(a[i].score, b[j].score) = 0
    /\ \A j \in 1..Len(b) : \E i \in 1..Len(a) :
          Key(a[i]) = Key(b[j]) /\ ScoreCmp(a[i].score, b[j].score) = 0

\* a frame of the default search has just ended by early termination
EndedEarly ==
    /\ self.search_type = "default"
    /\ pc = "frame"
    /\ frame_end = "early"

\* C21: when a frame of the default search ends by early termination, the beam
\* best hypotheses carried forward have the keys and scores of the kept set
\* that expanding the rest of the working set until it is empty, and truncating
\* to the beam, would have given.
C21_EarlyTerminationKeepsOutcome ==
    EndedEarly =>
        \A r \in { expand_until_empty(hyps, dedup_out, time_idx - 1, MaxDrain) } :
            r # <<>> =>
                SameKeysAndScores(Take(SortedByScore(kept_hyps, TRUE), beam), r[1])

\* a frame ended early while the rest of its working set could be expanded
\* until it is empty, with a scorer without ties
C21_Witness ==
    /\ EndedEarly
    /\ NoTies
    /\ expand_until_empty(hyps, dedup_out, time_idx - 1, MaxDrain) # <<>>

\* the positions of the pending hypotheses whose score is strictly greater than
\* every score of the working set hs
Dominating(kept, hs) ==
    { i \in 1..Len(kept) :
        \A j \in 1..Len(hs) : ScoreCmp(kept[i].score, hs[j].score) > 0 }

\* the hypotheses of list a are those at the positions I of list b
HoldsExactly(a, b, I) ==
    /\ Len(a) = Cardinality(I)
    /\ \A i \in I : \E j \in 1..Len(a) : a[j] = b[i]

\* an iteration of `while len(hyps) > 0` of the default search has just ended
\* with hypotheses left in the working set
AfterPopWithRest == AfterPop /\ hyps # <<>>

\* C22: after a pop of the default search that leaves the working set
\* non-empty, the frame stops early exactly when at least beam pending
\* hypotheses have a score strictly greater than the best score left in the
\* working set; the kept set is then exactly those pending hypotheses and the
\* next step starts the next frame (or returns) without expanding what is left
\* of the working set; otherwise the pending set is unchanged and the next step
\* pops the best hypothesis of the working set.
C22_EarlyTerminationRule ==
    /\ [](AfterPopWithRest =>
            /\ frame_end = "early" <=> Cardinality(Dominating(dedup_out, hyps)) >= beam
            /\ frame_end = "early" =>
                  /\ pc = "frame"
                  /\ HoldsExactly(kept_hyps, dedup_out, Dominating(dedup_out, hyps))
            /\ frame_end # "early" =>
                  /\ frame_end = "open"
                  /\ pc = "pop"
                  /\ kept_hyps = dedup_out)
    /\ [][AfterPopWithRest =>
            IF frame_end = "early"
            THEN /\ pc' \in { "frame", "pop", "done" }
                 /\ expanded' = <<>> \/ pc' = "done"
                 /\ pc' # "done" => hyps' = OnFrame(kept_hyps, time_idx)
            ELSE /\ expanded' # <<>>
                 /\ \A x \in 1..Len(expanded') :
                       /\ expanded'[x].parent = hyps[FirstMax(hyps)]
                       /\ \A j \in 1..Len(hyps) :
                             ScoreCmp(expanded'[x].parent.score, hyps[j].score) >= 0]_vars

\* a frame stopped early after a pop that left hypotheses in the working set,
\* and pending hypotheses that do not beat them were dropped, with a scorer
\* without ties
C22_Witness ==
    /\ AfterPopWithRest
    /\ NoTies
    /\ frame_end = "early"
    /\ Len(hyps) >= 1
    /\ Len(dedup_out) > Len(kept_hyps)

(***************************************************************************)
(* Termination of default_beam_search.  The search is sequential code: a    *)
(* step that can be taken is taken, which is weak fairness of each of its   *)
(* steps.  For DefaultPop and Return, WF_vars(A), that is                   *)
(* []<>~ENABLED <<A>>_vars \/ []<><<A>>_vars, is written with the guard of  *)
(* the action for ENABLED <<A>>_vars: both change a variable whenever their *)
(* guard holds.                                                             *)
(***************************************************************************)
PopFair == []<>(pc # "pop") \/ []<><<DefaultPop>>_vars

ReturnFair ==
    []<>(~(pc = "frame" /\ time_idx = encoded_lengths)) \/ []<><<Return>>_vars

SpecLive ==
    Spec /\ WF_vars(DefaultBegin) /\ WF_vars(DefaultFrame) /\ PopFair /\ ReturnFair

\* every token and every duration of every frame has a probability below 1,
\* so every (token, duration) pair has a strictly negative log-probability
StrictlyNegativeLogP ==
    \A t \in DOMAIN joint_out :
        /\ \A i \in 1..Len(token_logits(joint(t))) :
              token_logits(joint(t))[i] < SumSeq(token_logits(joint(t)))
        /\ \A i \in 1..Len(duration_logits(joint(t))) :
              duration_logits(joint(t))[i] < SumSeq(duration_logits(joint(t)))

\* the default search is under way on a scorer of strictly negative
\* log-probabilities
DefaultRunning ==
    /\ self.search_type = "default"
    /\ StrictlyNegativeLogP
    /\ pc \in { "search", "frame", "pop" }

MaxWideFrames == 2

\* the decoder of a decoder_model with vocab_size = 3 and blank_idx = 3
WithThreeTokens(dec) == [dec EXCEPT !.vocab_size = 3, !.blank = 3]

WideDecoders ==
    { WithThreeTokens(BeamTDTInfer("default", b, FALSE, d, 0, 0, FALSE, 0, TRUE, 2)) :
        b \in 1..(MaxBeam + 1), d \in DurationsSet }
    \cup
    { WithThreeTokens(BeamTDTInfer("maes", c[1], FALSE, d, c[2], g, FALSE, 0, TRUE, 2)) :
        c \in { x \in (1..(MaxBeam + 1)) \X (0..2) : x[1] + x[2] <= 3 },
        d \in { <<0, 1, 2>>, <<2, 0, 1>> }, g \in { 1, 3 } }

InitWide ==
    /\ self \in WideDecoders
    /\ topk_ties \in {"low", "high"}
    /\ encoded_lengths \in 0..MaxWideFrames
    /\ joint_out \in [0..(encoded_lengths - 1) -> ScorerOutputs]
    /\ partial_hypotheses \in { <<>>, <<SeedHyp>> }
    /\ scorer_calls = 0
    /\ cache = {}
    /\ raised = "None"
    /\ NotCalled
    /\ pc = "search"
    /\ time_idx = 0
    /\ hyps = <<>>
    /\ kept_hyps = <<>>
    /\ n = 0
    /\ list_b = <<>>
    /\ list_nb = <<>>
    /\ list_exp = <<>>
    /\ expanded = <<>>
    /\ frame_end = "none"
    /\ nbest = <<>>
    /\ dedup_in = <<>>
    /\ dedup_out = <<>>
    /\ sort_in = <<>>

SpecWide == InitWide /\ [][Next]_vars

(***************************************************************************)
(* Properties of the expansions of a popped hypothesis.                    *)
(***************************************************************************)
\* the frame of the iteration of `while len(hyps) > 0` that has just ended
PopFrame == IF pc = "pop" THEN time_idx ELSE time_idx - 1

\* every pair of a non-blank token (0-based id) and a duration bin (1-based)
NonBlankPairs == (0..(self.vocab_size - 1)) \X (1..Len(self.durations))

\* log-probability of token k (blank included) on frame t
TokenLogP(k, t) == log_softmax(token_logits(joint(t)))[k + 1]

\* log-probability of duration bin d on frame t
DurationLogP(d, t) == log_softmax(duration_logits(joint(t)))[d]

\* the non-blank expansions of the last pop, in the order they were made
NonBlankExpanded == SelectSeq(expanded, LAMBDA x : ~x.blank)

\* the expansion x appends token p[1] with the duration of bin p[2], and its
\* score is the parent's plus the log-probabilities of that token and that bin
IsChildOfPair(x, p, t) ==
    /\ x.child.y_sequence = Append(x.parent.y_sequence, p[1])
    /\ x.duration = self.durations[p[2]]
    /\ x.child.last_frame = x.parent.last_frame + self.durations[p[2]]
    /\ ScoreCmp(x.child.score,
                ScoreAdd(ScoreAdd(x.parent.score, TokenLogP(p[1], t)),
                         DurationLogP(p[2], t))) = 0

\* C24: the non-blank children of a pop of the default search are those of
\* beam_k = min(beam, vocab_size - 1) different (token, duration bin) pairs, no
\* pair of the full cross product outside them has a larger combined
\* log-probability than one of them, and each child has the token and the
\* duration of its pair and the parent's score plus the two log-probabilities
\* of that pair.
C24_NonBlankChildrenAreTopPairs ==
    AfterPop =>
        /\ beam_k = Min(beam, self.vocab_size - 1)
        /\ Len(NonBlankExpanded) = beam_k
        /\ \E ps \in [1..beam_k -> NonBlankPairs] :
              /\ \A i \in 1..beam_k : \A j \in 1..beam_k : i # j => ps[i] # ps[j]
              /\ \A i \in 1..beam_k :
                    /\ IsChildOfPair(NonBlankExpanded[i], ps[i], PopFrame)
                    /\ \A q \in NonBlankPairs :
                          (\A j \in 1..beam_k : ps[j] # q) =>
                              LogPCmp(LogPAdd(TokenLogP(ps[i][1], PopFrame),
                                              DurationLogP(ps[i][2], PopFrame)),
                                      LogPAdd(TokenLogP(q[1], PopFrame),
                                              DurationLogP(q[2], PopFrame))) >= 0

\* a pop with beam_k = 2 has made two children of the same token with
\* different durations, the second of a duration bin that is not the first of
\* the duration top-k
C24_Witness ==
    /\ AfterPop
    /\ beam_k = 2
    /\ Len(NonBlankExpanded) = 2
    /\ NonBlankExpanded[1].child.y_sequence = NonBlankExpanded[2].child.y_sequence
    /\ NonBlankExpanded[1].duration # NonBlankExpanded[2].duration

\* the hypothesis h is in the list hs
InList(h, hs) == \E i \in 1..Len(hs) : hs[i] = h

\* each non-blank expansion of the last pop extends the parent's sequence by
\* one token and adds its duration to last_frame; it is in the working set when
\* its duration is 0 and was appended to the pending set otherwise
NonBlankChildrenRouted ==
    \A x \in 1..Len(expanded) :
        ~expanded[x].blank =>
            /\ Len(expanded[x].child.y_sequence) = Len(expanded[x].parent.y_sequence) + 1
            /\ SubSeq(expanded[x].child.y_sequence, 1, Len(expanded[x].parent.y_sequence))
                  = expanded[x].parent.y_sequence
            /\ expanded[x].child.y_sequence[Len(expanded[x].child.y_sequence)]
                  \in 0..(self.vocab_size - 1)
            /\ expanded[x].child.last_frame
                  = expanded[x].parent.last_frame + expanded[x].duration
            /\ expanded[x].duration = 0 <=> InList(expanded[x].child, hyps)
            /\ expanded[x].duration # 0 <=> InList(expanded[x].child, dedup_in)

\* while frame time_idx is being processed, the working set holds hypotheses
\* of that frame
WorkingSetOnFrame == \A i \in 1..Len(hyps) : hyps[i].last_frame = time_idx

\* while frame time_idx is being processed, the pending set holds hypotheses of
\* later frames
PendingSetAfterFrame == \A i \in 1..Len(kept_hyps) : kept_hyps[i].last_frame > time_idx

\* C25: in the default search every non-blank child of a popped hypothesis h
\* has h's sequence plus one token and last_frame = h.last_frame + duration,
\* and goes to the working set of the frame exactly when its duration is 0 and
\* to the pending set otherwise; while frame t is processed every working-set
\* hypothesis has last_frame = t and every pending hypothesis last_frame > t.
C25_ChildrenRoutedByDuration ==
    /\ AfterPop => NonBlankChildrenRouted
    /\ (self.search_type = "default" /\ pc = "pop") =>
           (WorkingSetOnFrame /\ PendingSetAfterFrame)

\* a pop has sent one non-blank child of duration 0 to the working set and a
\* blank child to the pending set, and the frame goes on
C25_Witness ==
    /\ AfterPop
    /\ pc = "pop"
    /\ NoTies
    /\ \E x \in 1..Len(expanded) :
          ~expanded[x].blank /\ expanded[x].duration = 0
             /\ InList(expanded[x].child, hyps)
    /\ kept_hyps # <<>>

\* the blank expansions of the last pop, in the order they were made
BlankExpanded == SelectSeq(expanded, LAMBDA x : x.blank)

\* the duration top-k of frame t: the bins (1-based) by decreasing probability
DurationTopK(t) == topk(log_softmax(duration_logits(joint(t))), durations_beam_k)

\* The duration bins the blank children are to be made from: those of the
\* duration top-k that hold a nonzero duration, or the bin of the smallest
\* nonzero duration when the top-k is the zero-duration bin alone.
BlankBins(t) ==
    IF \E i \in 1..Len(DurationTopK(t)) :
          self.durations[DurationTopK(t)[i]] = 0 /\ Len(DurationTopK(t)) = 1
    THEN { d \in 1..Len(self.durations) :
             /\ self.durations[d] # 0
             /\ \A j \in 1..Len(self.durations) :
                   self.durations[j] # 0 => self.durations[d] <= self.durations[j] }
    ELSE { DurationTopK(t)[i] : i \in { j \in 1..Len(DurationTopK(t)) :
                                          self.durations[DurationTopK(t)[j]] # 0 } }

\* C26: the blank children of a pop of the default search are one per duration
\* of the duration top-k, a zero duration being replaced by the smallest
\* nonzero duration when it is the only candidate and left out otherwise; each
\* has the parent's token sequence and timesteps, a duration > 0, and was
\* appended to the pending set; every pop makes at least one.
C26_BlankChildrenAdvance ==
    AfterPop =>
        /\ Len(BlankExpanded) >= 1
        /\ { BlankExpanded[x].duration : x \in 1..Len(BlankExpanded) }
              = { self.durations[d] : d \in BlankBins(PopFrame) }
        /\ \A x \in 1..Len(BlankExpanded) :
              /\ BlankExpanded[x].child.y_sequence = BlankExpanded[x].parent.y_sequence
              /\ BlankExpanded[x].child.timestep = BlankExpanded[x].parent.timestep
              /\ BlankExpanded[x].duration > 0
              /\ BlankExpanded[x].child.last_frame
                    = BlankExpanded[x].parent.last_frame + BlankExpanded[x].duration
              /\ InList(BlankExpanded[x].child, dedup_in)

\* a pop whose duration top-k is a zero-duration bin alone has made a blank
\* child
C26_Witness ==
    /\ AfterPop
    /\ durations_beam_k = 1
    /\ self.durations[DurationTopK(PopFrame)[1]] = 0
    /\ Len(BlankExpanded) = 1

(***************************************************************************)
(* Properties of the expansions of a step of mAES.                         *)
(***************************************************************************)
\* a step of `for n in range(self.maes_num_steps)` has just ended
AfterMaesStep ==
    /\ self.search_type = "maes"
    /\ pc \in { "step", "frame" }
    /\ frame_end \in { "open", "early_exit", "last_step" }
    /\ expanded # <<>>

\* the frame of the step that has just ended
StepFrame == IF pc = "step" THEN time_idx ELSE time_idx - 1

\* the expansions the step made from the pairs of its hypotheses, without the
\* blanks folded into the zero-duration expansions on the last step
StepExpanded ==
    SubSeq(expanded, 1,
           Len(expanded) - (IF frame_end = "last_step" THEN Len(list_exp) ELSE 0))

\* the positions of the (blank, duration) pairs among the pairs a hypothesis
\* of frame t expands whose duration is nonzero
NonZeroBlankCandidates(t) ==
    { i \in 1..Len(maes_hyp_expansions(t)) :
        /\ maes_hyp_expansions(t)[i].k = self.blank
        /\ self.durations[maes_hyp_expansions(t)[i].duration_idx] # 0 }

\* the positions of the (blank, zero duration) pairs among them
ZeroBlankCandidates(t) ==
    { i \in 1..Len(maes_hyp_expansions(t)) :
        /\ maes_hyp_expansions(t)[i].k = self.blank
        /\ self.durations[maes_hyp_expansions(t)[i].duration_idx] = 0 }

\* the positions of the blank expansions of the step made from the hypothesis p
BlankExpansionsOf(p) ==
    { i \in 1..Len(StepExpanded) : StepExpanded[i].blank /\ StepExpanded[i].parent = p }

\* C27: mAES treats a (blank, zero duration) pair of a hypothesis as the
\* default search does.  When the zero duration is the only duration candidate
\* (duration_beam = 1) the pair gives one blank hypothesis with the smallest
\* nonzero duration; when the hypothesis also has a blank pair of a nonzero
\* duration, the zero-duration pair gives no hypothesis, so the hypothesis has
\* as many blank expansions as blank pairs of nonzero duration.
C27_MaesBlankSubstitutionAsDefault ==
    AfterMaesStep =>
        \A x \in 1..Len(StepExpanded) :
            /\ (ZeroBlankCandidates(StepFrame) # {} /\ duration_beam = 1) =>
                  \A i \in BlankExpansionsOf(StepExpanded[x].parent) :
                      StepExpanded[i].duration = self.durations[min_non_zero_duration_idx]
            /\ (ZeroBlankCandidates(StepFrame) # {}
                  /\ NonZeroBlankCandidates(StepFrame) # {}) =>
                  Cardinality(BlankExpansionsOf(StepExpanded[x].parent))
                      = Cardinality(NonZeroBlankCandidates(StepFrame))

\* a step of mAES has expanded a hypothesis whose 3 best pairs, whatever the
\* order of equal values, hold a (blank, zero duration) pair and a blank pair
\* of a nonzero duration, with durations [0, 1, 2]
C27_Witness ==
    /\ AfterMaesStep
    /\ self.durations = <<0, 1, 2>>
    /\ self.max_candidates = 3
    /\ joint_out[StepFrame] = 6
    /\ ZeroBlankCandidates(StepFrame) # {}
    /\ NonZeroBlankCandidates(StepFrame) # {}

\* the score of the blank expansion x of frame t is its parent's score plus
\* the log-probability of blank plus the log-probability of a duration bin
\* that holds the duration x advanced by
BlankScoreOfAdvance(x, t) ==
    \E d \in 1..Len(self.durations) :
        /\ self.durations[d] = x.duration
        /\ x.child.last_frame = x.parent.last_frame + self.durations[d]
        /\ ScoreCmp(x.child.score,
                    ScoreAdd(ScoreAdd(x.parent.score, TokenLogP(self.blank, t)),
                             DurationLogP(d, t))) = 0

\* C28: in the default search and in mAES, every blank expansion (a blank
\* folded into a zero-duration expansion on the last step of mAES included)
\* has the parent's score plus the log-probability of blank plus the
\* log-probability of the duration bin whose value was added to last_frame,
\* also when a zero duration was replaced by the smallest nonzero one.
C28_BlankScoreUsesDurationTaken ==
    /\ AfterPop =>
          \A x \in 1..Len(expanded) :
              expanded[x].blank => BlankScoreOfAdvance(expanded[x], PopFrame)
    /\ AfterMaesStep =>
          \A x \in 1..Len(expanded) :
              expanded[x].blank => BlankScoreOfAdvance(expanded[x], StepFrame)

\* a step of mAES whose only pair is (blank, zero duration) has made a blank
\* hypothesis, with durations [0, 1, 2] and a scorer without ties
C28_Witness ==
    /\ AfterMaesStep
    /\ NoTies
    /\ self.durations = <<0, 1, 2>>
    /\ self.max_candidates = 1
    /\ ZeroBlankCandidates(StepFrame) # {}
    /\ \E x \in 1..Len(expanded) : expanded[x].blank /\ expanded[x].duration = 1

\* every pair of a token (0-based id k, blank included) and a duration bin d
\* with its combined log-probability on frame t
ScoredPairs(t) ==
    { [k |-> q[1], d |-> q[2], logp |-> LogPAdd(TokenLogP(q[1], t), DurationLogP(q[2], t))] :
        q \in (0..self.vocab_size) \X (1..Len(self.durations)) }

\* the pairs of P that no pair of P exceeds
BestPairs(P) == { b \in P : \A r \in P : LogPCmp(b.logp, r.logp) >= 0 }

\* the pairs of P within maes_expansion_gamma (in units of ln 2) of the best
\* pairs B
WithinGammaOf(P, B) ==
    { q \in P :
        \A b \in B :
            LogPCmp(q.logp, LogP(b.logp.w, b.logp.e + self.maes_expansion_gamma)) >= 0 }

\* S holds the max_candidates best pairs among G, the pairs within
\* maes_expansion_gamma of the best one (all of G, when they are fewer)
IsPrunedTop(S, G) ==
    /\ S \subseteq G
    /\ Cardinality(S) = Min(self.max_candidates, Cardinality(G))
    /\ \A q \in S : \A r \in G \ S : LogPCmp(q.logp, r.logp) >= 0

\* the expansion x of a step of mAES is the one of the pair q: its token, the
\* duration of its bin (replaced for a blank of zero duration), and the
\* parent's score plus the log-probability of the pair (plus the LM's)
IsMaesChildOfPair(x, q) ==
    /\ x.blank <=> q.k = self.blank
    /\ x.duration = self.durations[maes_duration_idx(q.k, q.d)]
    /\ x.child.last_frame = x.parent.last_frame + x.duration
    /\ x.child.y_sequence = IF q.k = self.blank THEN x.parent.y_sequence
                            ELSE Append(x.parent.y_sequence, q.k)
    /\ ScoreCmp(x.child.score,
                IF q.k = self.blank
                THEN ScoreAdd(x.parent.score, q.logp)
                ELSE maes_lm_score(ScoreAdd(x.parent.score, q.logp),
                                   x.parent.ngram_lm_state, q.k)) = 0

\* the positions of the expansions of the step made from the hypothesis p
ExpansionsOf(p) == { i \in 1..Len(StepExpanded) : StepExpanded[i].parent = p }

\* the expansions at the positions E are those of the pruned best pairs of P,
\* one expansion for each pair, a best pair among them; B are the best pairs
\* of P and G the pairs within maes_expansion_gamma of them
ExpandsPrunedTop(E, P, B, G) ==
    /\ Cardinality(E) >= 1
    /\ Cardinality(E) <= self.max_candidates
    /\ \E f \in [E -> P] :
          /\ \A i \in E : \A j \in E : i # j => f[i] # f[j]
          /\ \A i \in E : IsMaesChildOfPair(StepExpanded[i], f[i])
          /\ IsPrunedTop({ f[i] : i \in E }, G)
          /\ \E i \in E : f[i] \in B

\* every hypothesis of the step is expanded by its pruned best pairs
StepExpandsPrunedTop(P, B, G) ==
    \A x \in 1..Len(StepExpanded) :
        ExpandsPrunedTop(ExpansionsOf(StepExpanded[x].parent), P, B, G)

\* the same, for the best pairs B of P
StepExpandsPrunedTopOf(P, B) == StepExpandsPrunedTop(P, B, WithinGammaOf(P, B))

\* the same, for the pairs P
StepExpandsPrunedTopOfPairs(P) == StepExpandsPrunedTopOf(P, BestPairs(P))

\* C29: in every step of mAES each hypothesis is expanded by exactly those of
\* its max_candidates = beam_size + maes_expansion_beta best (token, duration)
\* pairs that are within maes_expansion_gamma of its best pair: between 1 and
\* max_candidates expansions, its best pair among them.
C29_MaesExpandsPrunedTopPairs ==
    AfterMaesStep => StepExpandsPrunedTopOfPairs(ScoredPairs(StepFrame))

\* a step of mAES has expanded a hypothesis by fewer than max_candidates
\* pairs, the others of its best pairs being more than maes_expansion_gamma
\* below the best one
C29_Witness ==
    /\ AfterMaesStep
    /\ Cardinality(ExpansionsOf(StepExpanded[1].parent)) < self.max_candidates
    /\ Cardinality(WithinGammaOf(ScoredPairs(StepFrame), BestPairs(ScoredPairs(StepFrame))))
          < self.max_candidates

\* mAES has finished a frame by the early exit or by the last step
MaesFrameProcessed ==
    /\ self.search_type = "maes"
    /\ pc = "frame"
    /\ frame_end \in { "early_exit", "last_step" }

\* the blanks folded into the zero-duration expansions on the last step
FoldedExpanded ==
    IF frame_end = "last_step"
    THEN SubSeq(expanded, Len(expanded) - Len(list_exp) + 1, Len(expanded))
    ELSE <<>>

\* the duration bins of frame t that no bin exceeds
MostProbableDurations(t) ==
    { d \in 1..Len(self.durations) :
        \A e \in 1..Len(self.durations) :
            LogPCmp(DurationLogP(d, t), DurationLogP(e, t)) >= 0 }

\* the bins a blank folded in with the most probable bin d takes: d itself, or
\* the bins of the smallest nonzero duration when the duration of d is zero
FoldedBins(d) ==
    IF self.durations[d] # 0 THEN { d }
    ELSE { e \in 1..Len(self.durations) :
             /\ self.durations[e] > 0
             /\ \A j \in 1..Len(self.durations) :
                   self.durations[j] > 0 => self.durations[e] <= self.durations[j] }

\* x adds to a zero-duration expansion of the step the blank of frame t with
\* the most probable duration, replaced by the smallest nonzero one if zero
IsBlankFold(x, t) ==
    /\ \E y \in 1..Len(StepExpanded) :
          /\ StepExpanded[y].child = x.parent
          /\ ~StepExpanded[y].blank
          /\ StepExpanded[y].duration = 0
    /\ x.child.y_sequence = x.parent.y_sequence
    /\ \E d \in MostProbableDurations(t) : \E e \in FoldedBins(d) :
          /\ x.child.last_frame = x.parent.last_frame + self.durations[e]
          /\ ScoreCmp(x.child.score,
                      ScoreAdd(ScoreAdd(x.parent.score, TokenLogP(self.blank, t)),
                               DurationLogP(e, t))) = 0

\* C30: when mAES has finished frame t, by the early exit of a step without
\* zero-duration expansions or by the last step, every hypothesis of the kept
\* set has last_frame > t; on the last step every zero-duration expansion
\* still left has had the blank and its most probable duration (the smallest
\* nonzero one if that is zero) added to its score and last_frame before the
\* merge.
C30_MaesFrameLeavesAdvancedHyps ==
    MaesFrameProcessed =>
        /\ \A i \in 1..Len(kept_hyps) : kept_hyps[i].last_frame > StepFrame
        /\ frame_end = "early_exit" => list_exp = <<>>
        /\ \A x \in 1..Len(FoldedExpanded) :
              /\ IsBlankFold(FoldedExpanded[x], StepFrame)
              /\ InList(FoldedExpanded[x].child, dedup_in)

\* the last step of mAES has folded the blank into a zero-duration expansion
\* whose most probable duration is a zero that is not the first zero of the
\* duration list: the expansion is kept on the frame just finished
C30_Witness ==
    /\ MaesFrameProcessed
    /\ frame_end = "last_step"
    /\ \E x \in 1..Len(FoldedExpanded) :
          /\ FoldedExpanded[x].duration = 0
          /\ FoldedExpanded[x].child.last_frame = StepFrame
          /\ InList(FoldedExpanded[x].child, kept_hyps)

\* the number of entries of the sequence s that equal v
RECURSIVE Occurrences(_, _)
Occurrences(s, v) ==
    IF s = <<>> THEN 0
    ELSE (IF Head(s) = v THEN 1 ELSE 0) + Occurrences(Tail(s), v)

\* every hypothesis the search holds: the kept set, the hypotheses of the
\* step, the lists of the step and the returned list
HeldHyps == kept_hyps \o hyps \o list_b \o list_nb \o list_exp \o nbest

\* the hypothesis h is, by token sequence and last_frame, a non-blank
\* expansion of zero duration among the expansions of the step
IsZeroDurationExpansion(h) ==
    \E x \in 1..Len(StepExpanded) :
        /\ ~StepExpanded[x].blank
        /\ StepExpanded[x].duration = 0
        /\ Key(StepExpanded[x].child) = Key(h)

\* C31: in mAES one frame takes at most maes_num_steps expansion steps, no
\* hypothesis gains more than maes_num_steps non-blank tokens on one frame (at
\* most maes_num_steps entries of its timesteps equal that frame), and the
\* hypotheses expanded in the next step of a frame are the non-blank
\* expansions of zero duration of the step before, and only those.
C31_MaesStepsBounded ==
    self.search_type = "maes" =>
        /\ pc = "step" => n < self.maes_num_steps
        /\ \A i \in 1..Len(HeldHyps) : \A f \in 0..MaxFrames :
              Occurrences(HeldHyps[i].timestep, f) <= self.maes_num_steps
        /\ (pc = "step" /\ n > 0) =>
              /\ \A i \in 1..Len(hyps) : IsZeroDurationExpansion(hyps[i])
              /\ \A x \in 1..Len(expanded) :
                    (~expanded[x].blank /\ expanded[x].duration = 0) =>
                        \E i \in 1..Len(hyps) : Key(expanded[x].child) = Key(hyps[i])

\* the last step of a frame has made a hypothesis with maes_num_steps tokens
\* of that frame: a chain of zero-duration expansions as long as allowed
C31_Witness ==
    /\ self.search_type = "maes"
    /\ frame_end = "last_step"
    /\ \E i \in 1..Len(list_exp) :
          Occurrences(list_exp[i].timestep, StepFrame) = self.maes_num_steps

\* the score s is the parent's score of the expansion x plus the combined
\* network log-probability of a pair of frame t with the token k, plus times
\* the LM's log-probability of k after the parent's LM state
IsFusedScore(x, s, k, t, times) ==
    \E q \in ScoredPairs(t) :
        /\ q.k = k
        /\ ScoreCmp(s, ScoreAddTimes(ScoreAdd(x.parent.score, q.logp),
                                     compute_ngram_score(x.parent.ngram_lm_state, k).lm_score,
                                     times)) = 0

\* the token the non-blank expansion x appended
TokenOf(x) == x.child.y_sequence[Len(x.child.y_sequence)]

\* C32: in a step of mAES with LM fusion a non-blank expansion has the score
\* of its parent plus the combined network log-probability plus
\* ngram_lm_alpha times the LM's log-probability of the token after the
\* PARENT's LM state, and the LM state that call returned; a blank expansion
\* has no LM term and the parent's LM state; without fusion no expansion has
\* an LM term.
C32_MaesShallowFusion ==
    AfterMaesStep =>
        \A i \in 1..Len(expanded) :
            IF expanded[i].blank
            THEN /\ IsFusedScore(expanded[i], expanded[i].child.score, self.blank, StepFrame, 0)
                 /\ expanded[i].child.ngram_lm_state = expanded[i].parent.ngram_lm_state
            ELSE IF self.ngram_lm
            THEN /\ IsFusedScore(expanded[i], expanded[i].child.score, TokenOf(expanded[i]),
                                 StepFrame, self.ngram_lm_alpha)
                 /\ expanded[i].child.ngram_lm_state =
                       compute_ngram_score(expanded[i].parent.ngram_lm_state,
                                           TokenOf(expanded[i])).next_state
            ELSE IsFusedScore(expanded[i], expanded[i].child.score, TokenOf(expanded[i]),
                              StepFrame, 0)

\* with LM fusion, the second step of a frame has appended a token to a
\* hypothesis whose LM state the first step had advanced, and has made a
\* blank expansion of it
C32_Witness ==
    /\ AfterMaesStep
    /\ self.ngram_lm
    /\ self.ngram_lm_alpha > 0
    /\ \E i \in 1..Len(StepExpanded) :
          /\ ~StepExpanded[i].blank
          /\ StepExpanded[i].parent.ngram_lm_state # start_hyp.ngram_lm_state
          /\ StepExpanded[i].child.ngram_lm_state # StepExpanded[i].parent.ngram_lm_state
    /\ \E i \in 1..Len(StepExpanded) :
          /\ StepExpanded[i].blank
          /\ StepExpanded[i].parent.ngram_lm_state # start_hyp.ngram_lm_state

\* the timesteps entry appended with the token of the non-blank expansion x
EntryOf(x) == x.child.timestep[Len(x.child.timestep)]

\* C34: in both strategies the timesteps entry appended with a non-blank
\* token while frame t is processed is t, the frame at which the token was
\* emitted, whatever the duration chosen for the token.
C34_TimestepIsEmissionFrame ==
    /\ AfterPop =>
          \A i \in 1..Len(expanded) :
              ~expanded[i].blank =>
                  /\ Len(expanded[i].child.timestep) = Len(expanded[i].parent.timestep) + 1
                  /\ EntryOf(expanded[i]) = PopFrame
    /\ AfterMaesStep =>
          \A i \in 1..Len(StepExpanded) :
              ~StepExpanded[i].blank =>
                  /\ Len(StepExpanded[i].child.timestep)
                        = Len(StepExpanded[i].parent.timestep) + 1
                  /\ EntryOf(StepExpanded[i]) = StepFrame

\* the default search has appended on frame 0 a token of duration 1 whose
\* timesteps entry is 1, with durations [0, 1, 2]
C34_Witness ==
    /\ AfterPop
    /\ PopFrame = 0
    /\ self.durations = <<0, 1, 2>>
    /\ \E i \in 1..Len(expanded) :
          /\ ~expanded[i].blank
          /\ expanded[i].duration = 1
          /\ EntryOf(expanded[i]) = 1

\* a frame is about to be split: the search is at the head of an iteration of
\* its loop over the frames
AtFrameStart == pc = "frame" /\ raised = "None" /\ time_idx < encoded_lengths

\* C35: in both strategies, at the start of processing frame t every
\* hypothesis of the kept set has last_frame >= t: the split of the kept set
\* into last_frame == t (working set) and last_frame > t (pending set) drops
\* no hypothesis.
C35_SplitDropsNothing ==
    AtFrameStart =>
        /\ \A i \in 1..Len(kept_hyps) : kept_hyps[i].last_frame >= time_idx
        /\ Len(OnFrame(kept_hyps, time_idx)) + Len(AfterFrame(kept_hyps, time_idx))
              = Len(kept_hyps)

\* frame 1 starts with a kept hypothesis left on frame 0: a blank that took
\* the second zero of the duration list
C35_Witness ==
    /\ AtFrameStart
    /\ time_idx = 1
    /\ \E i \in 1..Len(kept_hyps) : kept_hyps[i].last_frame = 0

\* the search runs or has returned (it did not raise on partial_hypotheses)
SearchUnderWay == raised = "None" /\ pc \in { "frame", "pop", "step", "done" }

\* C36: for every number of frames >= 0, durations with a positive value and
\* (mAES) maes_expansion_gamma >= 0, the kept set is non-empty at every
\* boundary between frames and the returned ranked list is non-empty, so its
\* first element can be taken; for 0 frames the list is exactly the seed
\* hypothesis (score 0, token sequence [blank], last_frame 0).
C36_KeptSetNeverEmpty ==
    SearchUnderWay =>
        /\ pc = "frame" => kept_hyps # <<>>
        /\ pc = "done" => nbest # <<>>
        /\ (pc = "done" /\ encoded_lengths = 0) =>
              /\ Len(nbest) = 1
              /\ ScoreCmp(nbest[1].score, ScoreZero) = 0
              /\ nbest[1].y_sequence = <<self.blank>>
              /\ nbest[1].last_frame = 0

\* the search has returned an empty list: the only kept hypothesis stayed on
\* frame 0 and the split at the start of frame 1 dropped it
C36_Witness ==
    /\ SearchUnderWay
    /\ pc = "done"
    /\ encoded_lengths = 2
    /\ nbest = <<>>


(***************************************************************************)
(* The training modes of the decoder and of the joint around __call__      *)
(***************************************************************************)
\* __call__ ended: it returned its tuple, or an exception left it
CallEnded == pc \in {"returned", "raised"}

\* C38: when a decode call ends, by returning or because the decode of a sample
\* raised, the decoder and the joint are in the training or evaluation mode they
\* were in before the call.
C38_ModesRestored == CallEnded => training = training_state

\* a call that decoded a sample and returned restored the training mode of both
\* modules
C38_Witness ==
    /\ pc = "returned"
    /\ Len(decoded) > 0
    /\ training_state = [decoder |-> TRUE, joint |-> TRUE]
    /\ training = training_state

\* C38, the normal return alone: the modes are restored
C38_ModesRestoredOnReturn == pc = "returned" => training = training_state


(***************************************************************************)
(* The samples of one batch are decoded independently                      *)
(***************************************************************************)
\* the encoder frames 0..encoded_length-1 of the sample at position i of the batch
FramesOf(i) ==
    [t \in 0..(args.encoded_lengths[i + 1] - 1) |-> args.encoder_output[i + 1][t]]

\* the search of the sample at position batch_idx is under way or just ended
SampleUnderWay == pc \in {"search", "frame", "pop", "step", "done"}

\* the search has made its first hypothesis and has not looked at a frame yet
SearchBegun == pc = "frame" /\ time_idx = 0

\* the memoisation cache of a search that has not looked at a frame yet
CacheOfBegin ==
    IF self.search_algorithm = "modified_adaptive_expansion_search"
    THEN {start_hyp.y_sequence}
    ELSE {}

\* C37: each sample of a batch is decoded independently. The search of the
\* sample at any position is given that sample's frames 0..encoded_length-1
\* and nothing else; it starts from the blank hypothesis alone and from a cache
\* that holds nothing of an earlier sample; and two samples with the same
\* frames 0..encoded_length-1 get the same ranked list whatever their positions
\* and whatever follows their last frame in the batch tensor.
C37_SamplesDecodedIndependently ==
    /\ SampleUnderWay =>
        /\ joint_out = FramesOf(batch_idx)
        /\ encoded_lengths = args.encoded_lengths[batch_idx + 1]
    /\ SearchBegun =>
        /\ kept_hyps = <<start_hyp>>
        /\ hyps = <<>>
        /\ cache = CacheOfBegin
    /\ \A i, j \in 1..Len(decoded) :
        FramesOf(decoded[i].batch_idx) = FramesOf(decoded[j].batch_idx)
        => decoded[i].nbest_hyps = decoded[j].nbest_hyps

\* a batch of two samples that differ only after their last frame was decoded:
\* the first search filled its cache and returned hypotheses with tokens, and the
\* second sample got the same ranked list
C37_Witness ==
    /\ pc = "returned"
    /\ Len(decoded) = 2
    /\ args.encoder_output[1] # args.encoder_output[2]
    /\ FramesOf(0) = FramesOf(1)
    /\ cache # {} /\ cache # CacheOfBegin
    /\ Len(decoded[1].nbest_hyps) > 0
    /\ Len(decoded[1].nbest_hyps[1].y_sequence) > 1
    /\ decoded[1].nbest_hyps = decoded[2].nbest_hyps


(***************************************************************************)
(* The two searches with the identity of their objects.  A Hypothesis is   *)
(* an object, and its y_sequence and its timestep are list objects: `ref`  *)
(* names the hypothesis, y_ref and t_ref name its two lists.  A statement  *)
(* that changes a list in place changes it for every hypothesis that holds *)
(* that list.                                                              *)
(***************************************************************************)
\* the object with the fields of h
Object(h, ref, y_ref, t_ref) ==
    [score |-> h.score, y_sequence |-> h.y_sequence, timestep |-> h.timestep,
     last_frame |-> h.last_frame, ngram_lm_state |-> h.ngram_lm_state,
     ref |-> ref, y_ref |-> y_ref, t_ref |-> t_ref]

\* the names in use in a list of hypotheses
RefsOf(hs) == UNION { {hs[i].ref, hs[i].y_ref, hs[i].t_ref} : i \in 1..Len(hs) }

\* a name that no hypothesis and no list of the search has
NewRef ==
    1 + CHOOSE r \in RefsOf(hyps \o kept_hyps \o list_b \o list_nb) :
            \A q \in RefsOf(hyps \o kept_hyps \o list_b \o list_nb) : q <= r

\* the list object is handed on as it is
list_shared(list_ref, new_ref) == list_ref

\* x[:]: a new list object with the elements of x
list_copy(list_ref, new_ref) == new_ref

\* Hypothesis(...) of default_beam_search: a new object; max_hyp.y_sequence + [..]
\* is a new list, max_hyp.y_sequence[:] is a copy
default_new_object(x, ref) ==
    [x EXCEPT !.child =
        Object(x.child, ref,
               IF x.blank THEN list_copy(x.parent.y_ref, ref + 1) ELSE ref + 1,
               IF x.blank THEN list_copy(x.parent.t_ref, ref + 2) ELSE ref + 2)]

default_new_objects(exps, ref) ==
    [i \in 1..Len(exps) |-> default_new_object(exps[i], ref + 3 * (i - 1))]

\* one iteration of `while len(hyps) > 0`
ObjDefaultPop ==
    /\ pc = "pop"
    /\ \E i \in {FirstMax(hyps)} :
       \E nb \in {default_new_objects(default_nonblank_children(hyps[i], time_idx),
                                      NewRef)} :
       \E b \in {default_new_objects(default_blank_children(hyps[i], time_idx),
                                     NewRef + 3 * Len(nb))} :
          DefaultPopOf(i, nb, b)

\* the lists of a mAES step while its expansions are made: the hypotheses of the
\* step, list_b, list_nb, list_exp, and the expansion records
StepLists(hs, b, nb, ex, made) ==
    [hyps |-> hs, list_b |-> b, list_nb |-> nb, list_exp |-> ex, made |-> made]

\* new_hyp = Hypothesis(score=hyp.score + total_logp, y_sequence=hyp.y_sequence[:],
\* timestep=hyp.timestep[:], last_frame=int(hyp.last_frame + duration))
obj_new_hyp(hyp, duration, total_logp, ref) ==
    Object(Hypothesis(ScoreAdd(hyp.score, total_logp), hyp.y_sequence, hyp.timestep,
                      hyp.last_frame + duration, hyp.ngram_lm_state),
           ref, list_copy(hyp.y_ref, ref + 1), list_copy(hyp.t_ref, ref + 2))

\* list_b.append(new_hyp), list_exp.append(new_hyp) or list_nb.append(new_hyp)
obj_append(M, new_hyp, blank, duration) ==
    IF blank THEN [M EXCEPT !.list_b = Append(@, new_hyp)]
    ELSE IF duration = 0 THEN [M EXCEPT !.list_exp = Append(@, new_hyp)]
    ELSE [M EXCEPT !.list_nb = Append(@, new_hyp)]

\* the object o after new_hyp.y_sequence.append(int(k)),
\* new_hyp.timestep.append(time_idx) and
\* new_hyp.score += self.ngram_lm_alpha * lm_score, with the new LM state
obj_extended(o, new_hyp, lm_state, k, t) ==
    [o EXCEPT
        !.y_sequence = IF o.y_ref = new_hyp.y_ref THEN Append(@, k) ELSE @,
        !.timestep = IF o.t_ref = new_hyp.t_ref THEN Append(@, t) ELSE @,
        !.score = IF o.ref = new_hyp.ref THEN maes_lm_score(@, lm_state, k) ELSE @,
        !.ngram_lm_state = IF o.ref = new_hyp.ref
                           THEN maes_lm_state(lm_state, k) ELSE @]

\* the lists after the statements that change new_hyp in place
obj_extend(M, new_hyp, lm_state, k, t) ==
    StepLists([i \in 1..Len(M.hyps) |-> obj_extended(M.hyps[i], new_hyp, lm_state, k, t)],
              [i \in 1..Len(M.list_b) |->
                  obj_extended(M.list_b[i], new_hyp, lm_state, k, t)],
              [i \in 1..Len(M.list_nb) |->
                  obj_extended(M.list_nb[i], new_hyp, lm_state, k, t)],
              [i \in 1..Len(M.list_exp) |->
                  obj_extended(M.list_exp[i], new_hyp, lm_state, k, t)],
              M.made)

\* the new hypothesis as it is in the list it was appended to
obj_appended(M, blank, duration) ==
    IF blank THEN M.list_b[Len(M.list_b)]
    ELSE IF duration = 0 THEN M.list_exp[Len(M.list_exp)]
    ELSE M.list_nb[Len(M.list_nb)]

\* the record of the expansion of hyp
obj_made(M, hyp, blank, duration) ==
    [M EXCEPT !.made = Append(@, Expansion(hyp, blank, duration,
                                           obj_appended(M, blank, duration)))]

\* the body of the loop over the expansions of hyp for the pair (k, duration)
obj_expand(M, hyp, k, duration, total_logp, t, ref) ==
    obj_made(IF k = self.blank
             THEN obj_append(M, obj_new_hyp(hyp, duration, total_logp, ref),
                             TRUE, duration)
             ELSE obj_extend(obj_append(M, obj_new_hyp(hyp, duration, total_logp, ref),
                                        FALSE, duration),
                             obj_new_hyp(hyp, duration, total_logp, ref),
                             hyp.ngram_lm_state, k, t),
             hyp, k = self.blank, duration)

\* the loops over the hypotheses of the step and over their expansions, from
\* expansion i of hypothesis j on
RECURSIVE obj_step_expansions(_, _, _, _, _, _)
obj_step_expansions(M, j, i, hyp_expansions, t, ref) ==
    IF j > Len(M.hyps) THEN M
    ELSE IF i > Len(hyp_expansions)
    THEN obj_step_expansions(M, j + 1, 1, hyp_expansions, t, ref)
    ELSE obj_step_expansions(
            obj_expand(M, M.hyps[j], hyp_expansions[i].k,
                       self.durations[maes_duration_idx(hyp_expansions[i].k,
                                                        hyp_expansions[i].duration_idx)],
                       hyp_expansions[i].total_logp, t, ref + 3 * Len(M.made)),
            j, i + 1, hyp_expansions, t, ref)

\* one iteration of `for n in range(self.maes_num_steps)`
ObjMaesStep ==
    /\ pc = "step"
    /\ \E M \in {obj_step_expansions(StepLists(hyps, list_b, list_nb, <<>>, <<>>),
                                     1, 1, maes_hyp_expansions(time_idx), time_idx,
                                     NewRef)} :
          MaesStepEnd(M.made, M.list_b, M.list_nb, M.list_exp)
    /\ UNCHANGED <<self, joint_out, topk_ties, encoded_lengths, nbest, sort_in>>
    /\ UNCHANGED <<partial_hypotheses, raised, call_vars>>

\* the decoders of the searches with objects
ObjDecoders ==
    { dec \in DefaultDecoders \cup MaesDecoders :
        /\ ~dec.score_norm
        /\ dec.beam_size = MaxBeam
        /\ dec.maes_expansion_gamma # 3
        /\ dec.durations \in { <<0, 1, 2>>, <<0, 0, 1>> } }

\* a search when its frame loop begins: kept_hyps = [start_hyp], one Hypothesis
\* object with its two lists
InitObj ==
    /\ self \in ObjDecoders
    /\ topk_ties = "low"
    /\ encoded_lengths \in 1..MaxFrames
    /\ joint_out \in [0..(encoded_lengths - 1) -> ScorerOutputs]
    /\ partial_hypotheses = <<>>
    /\ scorer_calls = IF self.search_algorithm = "default_beam_search" THEN 1 ELSE 2
    /\ cache = IF self.search_algorithm = "default_beam_search"
               THEN {} ELSE {start_hyp.y_sequence}
    /\ raised = "None"
    /\ NotCalled
    /\ pc = "frame"
    /\ time_idx = 0
    /\ hyps = <<>>
    /\ kept_hyps = <<Object(start_hyp, 1, 2, 3)>>
    /\ n = 0
    /\ list_b = <<>>
    /\ list_nb = <<>>
    /\ list_exp = <<>>
    /\ expanded = <<>>
    /\ frame_end = "none"
    /\ nbest = <<>>
    /\ dedup_in = <<>>
    /\ dedup_out = <<>>
    /\ sort_in = <<>>

NextObj ==
    \/ DefaultFrame
    \/ ObjDefaultPop
    \/ MaesFrame
    \/ ObjMaesStep
    \/ Return

SpecObj == InitObj /\ [][NextObj]_vars


(***************************************************************************)
(* Expansions leave the expanded hypothesis and the other hypotheses as    *)
(* they are                                                                *)
(***************************************************************************)
\* the hypotheses expanded by the last iteration, and the ones it made
Parents(exps) == [i \in 1..Len(exps) |-> exps[i].parent]

\* the hypotheses in the frontiers and in the lists of the frame
Frontiers == hyps \o kept_hyps \o list_b \o list_nb

\* no two hypothesis objects of hs hold the same list object
OwnLists(hs) ==
    \A i, j \in 1..Len(hs) :
        /\ hs[i].y_ref # hs[i].t_ref
        /\ hs[i].ref # hs[j].ref
           => {hs[i].y_ref, hs[i].t_ref} \cap {hs[j].y_ref, hs[j].t_ref} = {}

\* the record x is the expansion of a hypothesis into a new one, not the blank
\* folded into a hypothesis
IsNewObject(x) == x.child.ref # x.parent.ref

\* the new hypothesis of x has the sequences of the expanded one, with one
\* more entry unless the expansion is a blank
ExtendsParent(x) ==
    /\ Len(x.child.y_sequence) = Len(x.parent.y_sequence) + (IF x.blank THEN 0 ELSE 1)
    /\ Len(x.child.timestep) = Len(x.parent.timestep) + (IF x.blank THEN 0 ELSE 1)
    /\ SubSeq(x.child.y_sequence, 1, Len(x.parent.y_sequence)) = x.parent.y_sequence
    /\ SubSeq(x.child.timestep, 1, Len(x.parent.timestep)) = x.parent.timestep

\* o and p are one object with the same token sequence and timesteps
SameSequences(o, p) ==
    o.ref = p.ref => o.y_sequence = p.y_sequence /\ o.timestep = p.timestep

\* an iteration that expands: for every expansion it made, the expanded
\* hypothesis was, when it was expanded, as it was before the iteration, and
\* the new hypothesis is after the iteration as it was made
ExpansionKeepsOthers ==
    pc \in {"pop", "step"} =>
        \A i \in 1..Len(expanded') :
            IsNewObject(expanded'[i]) =>
                /\ \E j \in 1..Len(hyps) : hyps[j] = expanded'[i].parent
                /\ ExtendsParent(expanded'[i])
                /\ \A k \in 1..Len(Frontiers') :
                      SameSequences(Frontiers'[k], expanded'[i].child)

\* the score of o was merged with the score of a duplicate
IsMergeTarget(o, merged) ==
    \E k \in 1..Len(merged) : Key(merged[k]) = Key(o) /\ merged[k].ref # o.ref

\* a hypothesis that is in a frontier before and after a step keeps its
\* sequences and its frame, and its score unless a duplicate was merged into it
FrontierKept ==
    \A i \in 1..Len(hyps \o kept_hyps) : \A j \in 1..Len(hyps' \o kept_hyps') :
        (hyps \o kept_hyps)[i].ref = (hyps' \o kept_hyps')[j].ref =>
            /\ [(hyps' \o kept_hyps')[j] EXCEPT !.score = 0]
               = [(hyps \o kept_hyps)[i] EXCEPT !.score = 0]
            /\ (hyps' \o kept_hyps')[j].score # (hyps \o kept_hyps)[i].score
               => IsMergeTarget((hyps \o kept_hyps)[i], dedup_in')

\* C33: expanding a hypothesis never mutates it, in either strategy: the new
\* hypotheses own their copies of the token sequence and of the timesteps, the
\* expanded hypothesis is the same for each of its expansions, and a change made
\* in place to a new hypothesis (a token appended, a duplicate's score merged,
\* the final blank folded in) changes no other hypothesis of a frontier.
C33_ExpansionNeverMutatesParent ==
    /\ [](OwnLists(Frontiers \o Parents(expanded) \o Children(expanded)))
    /\ [][ExpansionKeepsOthers /\ FrontierKept]_vars

\* a last mAES step that appended tokens to new hypotheses, folded the blank
\* into one of them and merged duplicates into a hypothesis kept from before
C33_Witness ==
    /\ self.search_algorithm = "modified_adaptive_expansion_search"
    /\ pc = "frame"
    /\ frame_end = "last_step"
    /\ \E i \in 1..Len(expanded) : ~IsNewObject(expanded[i])
    /\ \E i \in 1..Len(expanded) : IsNewObject(expanded[i]) /\ ~expanded[i].blank
    /\ \E i \in 1..Len(expanded) : IsNewObject(expanded[i]) /\ expanded[i].blank
    /\ Len(dedup_out) < Len(dedup_in)
    /\ OwnLists(Frontiers \o Parents(expanded) \o Children(expanded))

====
